---- MODULE Spec2Model ----
(***************************************************************************)
(* A model of go-webalizer's log-aggregation core:                         *)
(*   - the record extractor's field decoders (internal/parser),            *)
(*   - the statistics accumulator folded by ProcessLog (internal/logstats),*)
(*   - the concurrent country cache (internal/countrycache).               *)
(*   - LogStats.LookupCountries and the command's action (cmd/main.go).    *)
(*                                                                         *)
(* Text fields whose content the code inspects (URL path, referrer, size)  *)
(* are sequences of byte codes; fields the code passes through untouched   *)
(* (address, method, user agent) are opaque strings.  A timestamp is the   *)
(* record of the numeric fields of "02/Jan/2006:15:04:05 -0700".           *)
(***************************************************************************)
EXTENDS Integers, Sequences, FiniteSets, TLC

VARIABLES
    stats,      \* the *LogStats accumulator of ProcessLog
    lineNr,     \* ProcessLog's line counter
    input,      \* the lines the scanner has delivered so far (history)
    records,    \* the entries of the lines folded so far (history)
    \* CountryLookup and one call of ParallelLookup
    visitors,           \* the argument of ParallelLookup
    numWorkers,         \* cl.numWorkers
    countries,          \* cl.countries
    mu,                 \* cl.mu: "free" or the routine that holds it
    workChanClosed,     \* close(workChan) has happened
    resultChan,         \* the buffered results, oldest first
    resultChanClosed,   \* close(resultChan) has happened
    wg,                 \* counter of the workers' WaitGroup
    wg2,                \* counter of the collector's WaitGroup
    pcMain,             \* position of the routine that called ParallelLookup
    spawned,            \* workers started so far
    pcFeeder,           \* position of the feeding routine
    next,               \* index of the visitor the feeder sends next
    pcWorker,           \* position of each worker
    held,               \* the result a worker holds, its country set by the lookup
    pcCollector,        \* position of the collecting routine
    r,                  \* the result the collector holds
    received,           \* the results the collector has received, in order
    pcReader,           \* position of a routine calling Lookup
    got,                \* the countries Lookup has returned as found, by visitor
    \* LogStats.LookupCountries
    pcCountries,        \* position of the caller in LookupCountries
    db,                 \* the database handle cl.db
    opens,              \* calls of geoip2.Open that succeeded
    closes,             \* calls of cl.db.Close
    \* the command's action in main
    pcRun,              \* position of the action
    actionErr,          \* the error the action returns
    \* the views of the accumulator
    pcView,             \* position of a consumer of ProcessLog's result
    view                \* the value the last view call returned

logVars == <<stats, lineNr, input, records>>

lookupVars == <<visitors, numWorkers, countries, mu, workChanClosed, resultChan,
                resultChanClosed, wg, wg2, pcMain, spawned, pcFeeder, next,
                pcWorker, held, pcCollector, r, received>>

readerVars == <<pcReader, got>>

countryVars == <<pcCountries, db, opens, closes>>

runVars == <<pcRun, actionErr>>

viewVars == <<pcView, view>>

vars == <<logVars, lookupVars, readerVars, countryVars, runVars, viewVars>>

\* What the folding of a log leaves alone, and what ParallelLookup does.
aroundLog == <<lookupVars, readerVars, countryVars, runVars, viewVars>>
aroundLookup == <<logVars, readerVars, countryVars, runVars, viewVars>>

----------------------------------------------------------------------------
(* Bounds *)

\* The longest log file that is scanned.
MaxLines == 3

\* The longest visitor list handed to ParallelLookup.
MaxVisitors == 2

\* The largest worker count a CountryLookup is built with.
MaxWorkers == 2

----------------------------------------------------------------------------
(* Go maps: finite functions; a missing key reads as the zero value. *)

EmptyMap == [x \in {} |-> 0]

Get(m, k) == IF k \in DOMAIN m THEN m[k] ELSE 0

GetMap(m, k) == IF k \in DOMAIN m THEN m[k] ELSE EmptyMap

Put(m, k, v) == [x \in (DOMAIN m) \cup {k} |-> IF x = k THEN v ELSE m[x]]

\* m[k] += n
Add(m, k, n) == Put(m, k, Get(m, k) + n)

\* if _, ok := m[k1]; !ok { m[k1] = make(...) };  m[k1][k2] += n
Add2(m, k1, k2, n) == Put(m, k1, Add(GetMap(m, k1), k2, n))

RECURSIVE SumOver(_, _)
SumOver(f, S) ==
    IF S = {} THEN 0
    ELSE LET x == CHOOSE y \in S : TRUE IN f[x] + SumOver(f, S \ {x})

\* The sum of the values of a map of counters.
SumMap(m) == SumOver(m, DOMAIN m)

----------------------------------------------------------------------------
(* time.Time: the wall-clock fields of the parsed text and its zone offset *)

\* 10-minute session timeout for a "new visit", in seconds
visitTimeout == 600

\* The zero time.Time: January 1, year 1, 00:00:00 UTC.
ZeroTime == [y |-> 1, mo |-> 1, d |-> 1, hh |-> 0, mi |-> 0, ss |-> 0, off |-> 0]

IsLeap(y) == y % 4 = 0 /\ (y % 100 # 0 \/ y % 400 = 0)

DaysIn(mo, y) ==
    IF mo = 2 THEN (IF IsLeap(y) THEN 29 ELSE 28)
    ELSE IF mo \in {4, 6, 9, 11} THEN 30 ELSE 31

RECURSIVE DaysBefore(_, _)
DaysBefore(mo, y) == IF mo = 1 THEN 0 ELSE DaysBefore(mo - 1, y) + DaysIn(mo - 1, y)

\* Days from January 1, year 1 to the wall-clock date of t.
AbsDay(t) ==
    365 * (t.y - 1) + ((t.y - 1) \div 4) - ((t.y - 1) \div 100)
        + ((t.y - 1) \div 400) + DaysBefore(t.mo, t.y) + (t.d - 1)

\* Seconds of the instant of t past the UTC midnight of its wall-clock date.
AbsSec(t) == t.hh * 3600 + t.mi * 60 + t.ss - t.off

\* t.Sub(u) in seconds.  Time.Sub saturates at the largest and smallest
\* Duration; spans beyond the integers of the model saturate likewise.
Sub(t, u) ==
    LET dd == AbsDay(t) - AbsDay(u)
        ds == AbsSec(t) - AbsSec(u)
    IN  IF dd > 24000 THEN 2147483647
        ELSE IF dd < -24000 THEN -2147483647
        ELSE dd * 86400 + ds

\* t.Format("2006-01-02"): the day key, the wall-clock date in t's own zone.
Format(t) == <<t.y, t.mo, t.d>>

\* time.Date's normalisation of a month outside 1..12 and of a day outside
\* the month, as AddDate applies it.
RECURSIVE RollDay(_, _, _)
RollDay(y, mo, d) ==
    IF d > DaysIn(mo, y)
    THEN IF mo = 12 THEN RollDay(y + 1, 1, d - DaysIn(mo, y))
         ELSE RollDay(y, mo + 1, d - DaysIn(mo, y))
    ELSE IF d < 1
    THEN IF mo = 1 THEN RollDay(y - 1, 12, d + DaysIn(12, y - 1))
         ELSE RollDay(y, mo - 1, d + DaysIn(mo - 1, y))
    ELSE <<y, mo, d>>

\* t.AddDate(years, months, days) on a day <<y, mo, d>>
AddDate(day, years, months, days) ==
    LET m0 == day[2] + months - 1
    IN  RollDay(day[1] + years + (m0 \div 12), (m0 % 12) + 1, day[3] + days)

\* The decimal digits of a natural number, as character codes.
RECURSIVE DigitsOf(_)
DigitsOf(n) ==
    IF n < 10 THEN <<48 + n>> ELSE Append(DigitsOf(n \div 10), 48 + (n % 10))

\* Zero-padding to a width; a longer text is left as it is.
RECURSIVE Pad(_, _)
Pad(text, width) == IF Len(text) >= width THEN text ELSE Pad(<<48>> \o text, width)

\* The year as Format writes it for "2006": at least four digits, a minus
\* sign before those of a year below 0.
YearText(y) ==
    IF y < 0 THEN <<45>> \o Pad(DigitsOf(0 - y), 4) ELSE Pad(DigitsOf(y), 4)

\* The text of a day key, Format("2006-01-02").
KeyText(key) ==
    YearText(key[1]) \o <<45>> \o Pad(DigitsOf(key[2]), 2)
        \o <<45>> \o Pad(DigitsOf(key[3]), 2)

\* a < b for strings: the order of their bytes.
RECURSIVE TextLess(_, _)
TextLess(a, b) ==
    IF b = <<>> THEN FALSE
    ELSE IF a = <<>> THEN TRUE
    ELSE IF Head(a) # Head(b) THEN Head(a) < Head(b)
    ELSE TextLess(Tail(a), Tail(b))

\* The order of the dates of two day keys.
KeyLessByDate(key1, key2) ==
    \/ key1[1] < key2[1]
    \/ key1[1] = key2[1] /\ key1[2] < key2[2]
    \/ key1[1] = key2[1] /\ key1[2] = key2[2] /\ key1[3] < key2[3]

\* key1 < key2 for day keys "2006-01-02": the order of the strings.  Two
\* keys with years of four digits are texts of one length, digit under
\* digit, and their order is the order of the dates; any other pair is
\* compared byte by byte.
KeyLess(key1, key2) ==
    IF key1[1] \in 0..9999 /\ key2[1] \in 0..9999
    THEN KeyLessByDate(key1, key2)
    ELSE TextLess(KeyText(key1), KeyText(key2))

\* time.Parse(dateFormat, value).  A raw timestamp carries the numeric value
\* of each field of the layout; mo = 0 stands for text that is no month name.
unmarshalTimestamp(value) ==
    IF /\ value.mo \in 1..12
       /\ value.y \in 0..9999
       /\ value.d \in 1..DaysIn(value.mo, value.y)
       /\ value.hh \in 0..23 /\ value.mi \in 0..59 /\ value.ss \in 0..59
    THEN [val |-> value, err |-> FALSE]
    ELSE [val |-> ZeroTime, err |-> TRUE]

----------------------------------------------------------------------------
(* Field decoders over byte strings *)

IsDigit(c) == c \in 48..57

IsHex(c) == c \in 48..57 \/ c \in 65..70 \/ c \in 97..102

UnHex(c) == IF c \in 48..57 THEN c - 48
            ELSE IF c \in 97..102 THEN c - 97 + 10
            ELSE c - 65 + 10

\* url.PathUnescape fails when a '%' is not followed by two hex digits.
EscapeError(s) ==
    \E i \in 1..Len(s) :
        s[i] = 37 /\ ~(i + 2 <= Len(s) /\ IsHex(s[i + 1]) /\ IsHex(s[i + 2]))

RECURSIVE Unescape(_)
Unescape(s) ==
    IF s = <<>> THEN <<>>
    ELSE IF Head(s) = 37
         THEN <<16 * UnHex(s[2]) + UnHex(s[3])>> \o Unescape(SubSeq(s, 4, Len(s)))
         ELSE <<Head(s)>> \o Unescape(Tail(s))

\* unmarshalURLPath returning the empty string next to the error.
unmarshalURLPathEmpty(value) ==
    IF EscapeError(value) THEN [val |-> <<>>, err |-> TRUE]
    ELSE [val |-> Unescape(value), err |-> FALSE]

\* unmarshalURLPath unescapes a URL path; on failure it returns the raw value.
unmarshalURLPath(value) ==
    IF EscapeError(value) THEN [val |-> value, err |-> TRUE]
    ELSE [val |-> Unescape(value), err |-> FALSE]

\* unmarshalReferrer unescapes a referrer; on failure it returns the raw value.
unmarshalReferrer(value) ==
    IF EscapeError(value) THEN [val |-> value, err |-> TRUE]
    ELSE [val |-> Unescape(value), err |-> FALSE]

RECURSIVE DecimalValue(_)
DecimalValue(s) ==
    IF s = <<>> THEN 0
    ELSE 10 * DecimalValue(SubSeq(s, 1, Len(s) - 1)) + (s[Len(s)] - 48)

\* strconv.ParseUint(s, 10, 64): a non-empty string of decimal digits.
ParseUint(s) ==
    IF s # <<>> /\ \A i \in 1..Len(s) : IsDigit(s[i])
    THEN [val |-> DecimalValue(s), err |-> FALSE]
    ELSE [val |-> 0, err |-> TRUE]

\* unmarshalSize: a dash (-) is an unknown or missing size and decodes to 0.
unmarshalSize(value) ==
    IF value = <<45>> THEN [val |-> 0, err |-> FALSE] ELSE ParseUint(value)

\* The extensions of fileExts, as byte strings.
fileExts == {
    <<104, 116, 109>>,                        \* htm
    <<104, 116, 109, 108>>,                   \* html
    <<112, 104, 112>>,                        \* php
    <<112, 104, 112, 51>>,                    \* php3
    <<112, 104, 112, 52>>,                    \* php4
    <<97, 115, 112>>,                         \* asp
    <<97, 115, 112, 120>>,                    \* aspx
    <<106, 115, 112>>,                        \* jsp
    <<106, 115>>,                             \* js
    <<112, 121>>,                             \* py
    <<115, 104, 116, 109, 108>>,              \* shtml
    <<120, 104, 116, 109, 108>>,              \* xhtml
    <<99, 103, 105>>,                         \* cgi
    <<112, 108>>,                             \* pl
    <<114, 98>>,                              \* rb
    <<101, 114, 98>>,                         \* erb
    <<101, 106, 115>>,                        \* ejs
    <<112, 104, 116, 109, 108>>,              \* phtml
    <<100, 104, 116, 109, 108>>,              \* dhtml
    <<99, 102, 109>>,                         \* cfm
    <<100, 111>>,                             \* do
    <<97, 99, 116, 105, 111, 110>>,           \* action
    <<97, 120, 100>>,                         \* axd
    <<97, 115, 104, 120>>,                    \* ashx
    <<97, 115, 109, 120>>,                    \* asmx
    <<115, 118, 99>>,                         \* svc
    <<102, 97, 99, 101, 115>>,                \* faces
    <<106, 115, 112, 120>>,                   \* jspx
    <<120, 115, 112>>,                        \* xsp
    <<109, 100>>,                             \* md
    <<109, 97, 114, 107, 100, 111, 119, 110>>,    \* markdown
    <<108, 105, 113, 117, 105, 100>>,         \* liquid
    <<109, 117, 115, 116, 97, 99, 104, 101>>, \* mustache
    <<104, 98, 115>>,                         \* hbs
    <<119, 115, 100, 108>>,                   \* wsdl
    <<119, 97, 100, 108>>,                    \* wadl
    <<115, 119, 97, 103, 103, 101, 114>>      \* swagger
}

\* fileExtRE.FindStringIndex(path) != nil: the unanchored pattern \.(ext|...)
\* matches when some '.' of the path is directly followed by an extension.
MatchesFileExt(path) ==
    \E i \in 1..Len(path) :
        /\ path[i] = 46
        /\ \E e \in fileExts :
              /\ i + Len(e) <= Len(path)
              /\ SubSeq(path, i + 1, i + Len(e)) = e

----------------------------------------------------------------------------
(* Traffic counters *)

\* AddTraffic with the two fields taken for one another.
AddTrafficSwapped(hb, bytes) == [Hits |-> hb.Hits + bytes, Bytes |-> hb.Bytes + 1]

\* HitsBytes.AddTraffic
AddTraffic(hb, bytes) == [Hits |-> hb.Hits + 1, Bytes |-> hb.Bytes + bytes]

\* HitsBytesVisits.AddTraffic counting a visit on every call.
AddTrafficVisitsAlways(hbv, bytes, isNewVisit) ==
    [Hits   |-> hbv.Hits + 1,
     Bytes  |-> hbv.Bytes + bytes,
     Visits |-> hbv.Visits + 1]

\* HitsBytesVisits.AddTraffic
AddTrafficVisits(hbv, bytes, isNewVisit) ==
    [Hits   |-> hbv.Hits + 1,
     Bytes  |-> hbv.Bytes + bytes,
     Visits |-> IF isNewVisit THEN hbv.Visits + 1 ELSE hbv.Visits]

\* &HitsBytes{}
ZeroHB == [Hits |-> 0, Bytes |-> 0]

\* &HitsBytesVisits{}
ZeroHBV == [Hits |-> 0, Bytes |-> 0, Visits |-> 0]

----------------------------------------------------------------------------
(* The statistics accumulator *)

NewLogStats ==
    [Hits       |-> EmptyMap,
     Files      |-> EmptyMap,
     Pages      |-> EmptyMap,
     Bytes      |-> EmptyMap,
     Visits     |-> EmptyMap,
     CtrVisits  |-> EmptyMap,
     FirstVisit |-> EmptyMap,
     LastVisit  |-> EmptyMap,
     Sites      |-> EmptyMap,
     Methods    |-> EmptyMap,
     RespCodes  |-> EmptyMap,
     IPs        |-> EmptyMap,
     UserAgents |-> EmptyMap,
     URLPaths   |-> EmptyMap,
     Referrers  |-> EmptyMap]

\* m[k] on a map of time.Time: the zero time when k is absent.
GetTime(m, k) == IF k \in DOMAIN m THEN m[k] ELSE ZeroTime

\* m[k] on a map of counter structs, created zero-valued when k is absent.
GetHB(m, k) == IF k \in DOMAIN m THEN m[k] ELSE ZeroHB

GetHBV(m, k) == IF k \in DOMAIN m THEN m[k] ELSE ZeroHBV

UpdateIPStats(s, date, ip, bytes, isNewVisit) ==
    LET byIP == GetMap(s.IPs, date)
    IN  [s EXCEPT !.IPs =
            Put(s.IPs, date,
                Put(byIP, ip, AddTrafficVisits(GetHBV(byIP, ip), bytes, isNewVisit)))]

UpdateUserAgentStats(s, date, userAgent, bytes, isNewVisit) ==
    LET byUA == GetMap(s.UserAgents, date)
    IN  [s EXCEPT !.UserAgents =
            Put(s.UserAgents, date,
                Put(byUA, userAgent,
                    AddTrafficVisits(GetHBV(byUA, userAgent), bytes, isNewVisit)))]

UpdateURLStats(s, date, URLPath, method, bytes) ==
    LET byPath   == GetMap(s.URLPaths, date)
        byMethod == GetMap(byPath, URLPath)
    IN  [s EXCEPT !.URLPaths =
            Put(s.URLPaths, date,
                Put(byPath, URLPath,
                    Put(byMethod, method, AddTraffic(GetHB(byMethod, method), bytes))))]

\* UpdateReferrerStats counting the traffic once more on the entry it creates.
UpdateReferrerStatsTwice(s, date, Referrer, bytes) ==
    LET byRef == GetMap(s.Referrers, date)
        entry == IF Referrer \in DOMAIN byRef THEN byRef[Referrer]
                 ELSE AddTraffic(ZeroHB, bytes)
    IN  [s EXCEPT !.Referrers =
            Put(s.Referrers, date, Put(byRef, Referrer, AddTraffic(entry, bytes)))]

UpdateReferrerStats(s, date, Referrer, bytes) ==
    LET byRef == GetMap(s.Referrers, date)
    IN  [s EXCEPT !.Referrers =
            Put(s.Referrers, date,
                Put(byRef, Referrer, AddTraffic(GetHB(byRef, Referrer), bytes)))]

----------------------------------------------------------------------------
(* The record extractor *)

\* LogEntry.Extract: splits a line along the grammar
\*   address - - [timestamp] "method path protocol" status size "referrer" "user-agent"
\* and decodes each field.  A line that does not match the grammar, or whose
\* timestamp or size does not decode, fails; a path or referrer that does not
\* percent-decode keeps its raw value.
Extract(l) ==
    LET ts   == unmarshalTimestamp(l.ts)
        size == unmarshalSize(l.size)
    IN  [ok    |-> l.wellformed /\ ~ts.err /\ ~size.err,
         entry |-> [IP        |-> l.ip,
                    Timestamp |-> ts.val,
                    Method    |-> l.method,
                    URLPath   |-> unmarshalURLPath(l.path).val,
                    RespCode  |-> l.code,
                    Size      |-> size.val,
                    Referrer  |-> unmarshalReferrer(l.ref).val,
                    UserAgent |-> l.ua]]

\* CountHit with an assignment in place of the increment.
CountHitOnce(s, date) == [s EXCEPT !.Hits = Put(@, date, 1)]

\* CountHit keyed by the month "2006-01" in place of the day.
CountHitByMonth(s, date) == [s EXCEPT !.Hits = Add(@, <<date[1], date[2]>>, 1)]

\* HITS: every successfully parsed line is a hit.
CountHit(s, date) == [s EXCEPT !.Hits = Add(@, date, 1)]

\* FILES: successful responses (HTTP 200).
CountFile(s, date, line) ==
    IF line.RespCode = 200 THEN [s EXCEPT !.Files = Add(@, date, 1)] ELSE s

\* PAGES: classified as a "page" by extension.
CountPage(s, date, line) ==
    IF MatchesFileExt(line.URLPath) THEN [s EXCEPT !.Pages = Add(@, date, 1)] ELSE s

\* BYTES: total bytes sent.
CountBytes(s, date, line) == [s EXCEPT !.Bytes = Add(@, date, line.Size)]

\* IsNewVisit with >= in place of >.
IsNewVisitAtTimeout(s, line) ==
    Sub(line.Timestamp, GetTime(s.LastVisit, line.IP)) >= visitTimeout

\* IsNewVisit measuring from the address's first hit, not from its last.
IsNewVisitSinceFirst(s, line) ==
    Sub(line.Timestamp, GetTime(s.FirstVisit, line.IP)) > visitTimeout

\* line.Timestamp.Sub(stats.LastVisit[line.IP]) > visitTimeout
IsNewVisit(s, line) == Sub(line.Timestamp, GetTime(s.LastVisit, line.IP)) > visitTimeout

\* VISITS: a new visit is counted for the day and the address.
CountVisit(s, date, line, incVisits) ==
    IF incVisits THEN [s EXCEPT !.Visits = Add2(@, date, line.IP, 1)] ELSE s

\* TrackVisitTimes setting the last hit time only when the address is new.
TrackVisitTimesOnce(s, line) ==
    [s EXCEPT !.FirstVisit = IF line.IP \in DOMAIN @ THEN @
                             ELSE Put(@, line.IP, line.Timestamp),
              !.LastVisit  = IF line.IP \in DOMAIN @ THEN @
                             ELSE Put(@, line.IP, line.Timestamp)]

\* TrackVisitTimes keeping the latest of the hit times of the address.
TrackVisitTimesLatest(s, line) ==
    [s EXCEPT !.FirstVisit = IF line.IP \in DOMAIN @ THEN @
                             ELSE Put(@, line.IP, line.Timestamp),
              !.LastVisit  = IF line.IP \in DOMAIN @
                                  /\ Sub(line.Timestamp, @[line.IP]) < 0
                             THEN @
                             ELSE Put(@, line.IP, line.Timestamp)]

\* Track first and last hit time.
TrackVisitTimes(s, line) ==
    [s EXCEPT !.FirstVisit = IF line.IP \in DOMAIN @ THEN @
                             ELSE Put(@, line.IP, line.Timestamp),
              !.LastVisit  = Put(@, line.IP, line.Timestamp)]

\* CountCategories leaving out the response codes other than 200.
CountCategoriesOfFiles(s, date, line) ==
    [s EXCEPT !.Sites     = Add2(@, date, line.IP, 1),
              !.Methods   = Add2(@, date, line.Method, 1),
              !.RespCodes = IF line.RespCode = 200
                            THEN Add2(@, date, line.RespCode, 1) ELSE @]

\* SITES, METHOD, response code: hits by address, method and response code.
CountCategories(s, date, line) ==
    [s EXCEPT !.Sites     = Add2(@, date, line.IP, 1),
              !.Methods   = Add2(@, date, line.Method, 1),
              !.RespCodes = Add2(@, date, line.RespCode, 1)]

\* The body of ProcessLog's scanner loop for one extracted line.
Accumulate(s, line) ==
    LET date      == Format(line.Timestamp)
        incVisits == IsNewVisit(s, line)
        s1 == CountHit(s, date)
        s2 == CountFile(s1, date, line)
        s3 == CountPage(s2, date, line)
        s4 == CountBytes(s3, date, line)
        s5 == CountVisit(s4, date, line, incVisits)
        s6 == TrackVisitTimes(s5, line)
        s7 == CountCategories(s6, date, line)
        s8 == UpdateIPStats(s7, date, line.IP, line.Size, incVisits)
        s9 == UpdateUserAgentStats(s8, date, line.UserAgent, line.Size, incVisits)
        s10 == UpdateURLStats(s9, date, line.URLPath, line.Method, line.Size)
    IN  UpdateReferrerStats(s10, date, line.Referrer, line.Size)

----------------------------------------------------------------------------
(* The log lines the scanner may deliver *)

Stamp(y, mo, d, hh, mi, ss, off) ==
    [y |-> y, mo |-> mo, d |-> d, hh |-> hh, mi |-> mi, ss |-> ss, off |-> off]

\* "GET /index.html" 200 500 "http://r/" "ua1"
PageLine(ip, ts) ==
    [wellformed |-> TRUE, ip |-> ip, ts |-> ts, method |-> "GET",
     path |-> <<47, 105, 110, 100, 101, 120, 46, 104, 116, 109, 108>>,
     code |-> 200, size |-> <<53, 48, 48>>,
     ref |-> <<104, 116, 116, 112, 58, 47, 47, 114, 47>>, ua |-> "ua1"]

\* "POST /img.png" 404 - "-" "ua2"
ImageLine(ip, ts) ==
    [wellformed |-> TRUE, ip |-> ip, ts |-> ts, method |-> "POST",
     path |-> <<47, 105, 109, 103, 46, 112, 110, 103>>,
     code |-> 404, size |-> <<45>>, ref |-> <<45>>, ua |-> "ua2"]

\* Moments of 01/Jan/2024 and of 01/Jan/0001 at 0, 100, 600, 601 and 700
\* seconds past midnight UTC.
T0   == Stamp(2024, 1, 1, 0, 0, 0, 0)
T100 == Stamp(2024, 1, 1, 0, 1, 40, 0)
T600 == Stamp(2024, 1, 1, 0, 10, 0, 0)
T601 == Stamp(2024, 1, 1, 0, 10, 1, 0)
T700 == Stamp(2024, 1, 1, 0, 11, 40, 0)
Z0   == Stamp(1, 1, 1, 0, 0, 0, 0)
Z100 == Stamp(1, 1, 1, 0, 1, 40, 0)
Z700 == Stamp(1, 1, 1, 0, 11, 40, 0)
\* 01/Feb/2024:00:05:00 +0100, an instant of 31 January UTC.
TFeb == Stamp(2024, 2, 1, 0, 5, 0, 3600)
\* 30/Feb/2024 is no date: time.Parse reports "day out of range".
TBad == Stamp(2024, 2, 30, 0, 0, 0, 0)

GoodLines ==
    { PageLine("a", t) : t \in {T0, T100, T600, T601, T700, Z0, Z100, Z700} }
        \cup { ImageLine("b", T0), ImageLine("b", T700), ImageLine("a", T601),
               PageLine("b", TFeb) }

BadLines ==
    { PageLine("a", TBad),                                      \* bad timestamp
      [PageLine("a", T100) EXCEPT !.size = <<97, 98, 99>>],      \* size "abc"
      [PageLine("b", T100) EXCEPT !.wellformed = FALSE] }       \* grammar mismatch

Lines == GoodLines \cup BadLines

----------------------------------------------------------------------------
(* ProcessLog *)

InitLog ==
    /\ stats = NewLogStats
    /\ lineNr = 0
    /\ input = <<>>
    /\ records = <<>>

\* One turn of the scanner loop on a line that Extract accepts.
ProcessLine(l) ==
    /\ lineNr < MaxLines
    /\ Extract(l).ok
    /\ lineNr' = lineNr + 1
    /\ input' = Append(input, l)
    /\ records' = Append(records, Extract(l).entry)
    /\ stats' = Accumulate(stats, Extract(l).entry)

\* SkipLine without the continue: the rejected line is folded all the same.
SkipLineFolded(l) ==
    /\ lineNr < MaxLines
    /\ ~Extract(l).ok
    /\ lineNr' = lineNr + 1
    /\ input' = Append(input, l)
    /\ stats' = Accumulate(stats, Extract(l).entry)
    /\ UNCHANGED records

\* One turn of the scanner loop on a line that Extract rejects: continue.
SkipLine(l) ==
    /\ lineNr < MaxLines
    /\ ~Extract(l).ok
    /\ lineNr' = lineNr + 1
    /\ input' = Append(input, l)
    /\ UNCHANGED <<stats, records>>

----------------------------------------------------------------------------
(* The country cache *)

\* The visitors of the model: "a" and "b" are literal addresses, "h" and "e"
\* are host names.
Addresses == {"a", "b", "h", "e"}

\* net.ParseIP(visitor) != nil
ParseIP(visitor) == visitor \in {"a", "b"}

\* net.LookupIP(visitor): the name "h" does not resolve; the name "e"
\* resolves to an empty list without an error.
LookupIP(visitor) ==
    IF visitor = "h" THEN [ips |-> <<>>, err |-> TRUE]
    ELSE IF visitor = "e" THEN [ips |-> <<>>, err |-> FALSE]
    ELSE [ips |-> <<visitor>>, err |-> FALSE]

\* cl.db.Country(ip) and record.Country.Names["en"]: the database knows "a"
\* and fails on "b".
Country(ip) ==
    IF ip = "a" THEN [name |-> "Netherlands", err |-> FALSE]
    ELSE [name |-> "", err |-> TRUE]

lookupCountry(visitor) ==
    LET res == LookupIP(visitor)
    IN  IF ~ParseIP(visitor) /\ (res.err \/ Len(res.ips) = 0)
        THEN [country |-> "", err |-> res.err]
        ELSE LET ip  == IF ParseIP(visitor) THEN visitor ELSE res.ips[1]
                 rec == Country(ip)
             IN  IF rec.err THEN [country |-> "", err |-> TRUE]
                 ELSE [country |-> rec.name, err |-> FALSE]

Workers == 1..MaxWorkers

RECURSIVE SeqsUpTo(_, _)
SeqsUpTo(S, n) ==
    IF n = 0 THEN {<<>>}
    ELSE LET shorter == SeqsUpTo(S, n - 1)
         IN  shorter \cup {Append(q, x) : q \in shorter, x \in S}

\* type result struct { visitor, country string }: its zero value
NoResult == [visitor |-> "", country |-> ""]

\* NewCountryLookup followed by the call of ParallelLookup: the channels are
\* made, no routine runs yet.
InitLookup ==
    /\ visitors \in SeqsUpTo(Addresses, MaxVisitors)
    /\ numWorkers \in 0..MaxWorkers
    /\ countries = EmptyMap
    /\ mu = "free"
    /\ workChanClosed = FALSE
    /\ resultChan = <<>>
    /\ resultChanClosed = FALSE
    /\ wg = 0
    /\ wg2 = 0
    /\ pcMain = "spawn"
    /\ spawned = 0
    /\ pcFeeder = "off"
    /\ next = 1
    /\ pcWorker = [w \in Workers |-> "off"]
    /\ held = [w \in Workers |-> NoResult]
    /\ pcCollector = "off"
    /\ r = NoResult
    /\ received = <<>>

\* for range cl.numWorkers { wg.Add(1); go func() {...}() }
StartWorker ==
    /\ pcMain = "spawn"
    /\ spawned < numWorkers
    /\ wg' = wg + 1
    /\ spawned' = spawned + 1
    /\ pcWorker' = [pcWorker EXCEPT ![spawned + 1] = "receive"]
    /\ UNCHANGED <<visitors, numWorkers, countries, mu, workChanClosed, resultChan,
                   resultChanClosed, wg2, pcMain, pcFeeder, next, held,
                   pcCollector, r, received>>

\* go func() { for _, visitor := range visitors {...}; close(workChan) }()
StartFeeder ==
    /\ pcMain = "spawn"
    /\ spawned >= numWorkers
    /\ pcFeeder' = "send"
    /\ pcMain' = "collect"
    /\ UNCHANGED <<visitors, numWorkers, countries, mu, workChanClosed, resultChan,
                   resultChanClosed, wg, wg2, spawned, next, pcWorker, held,
                   pcCollector, r, received>>

\* wg2.Add(1); go func() { defer wg2.Done(); for r := range resultChan {...} }()
StartCollector ==
    /\ pcMain = "collect"
    /\ wg2' = wg2 + 1
    /\ pcCollector' = "receive"
    /\ pcMain' = "wait"
    /\ UNCHANGED <<visitors, numWorkers, countries, mu, workChanClosed, resultChan,
                   resultChanClosed, wg, spawned, pcFeeder, next, pcWorker, held, r,
                   received>>

\* The caller going on to close(resultChan) without wg.Wait().
WaitWorkersSkipped ==
    /\ pcMain = "wait"
    /\ pcMain' = "close"
    /\ UNCHANGED <<visitors, numWorkers, countries, mu, workChanClosed, resultChan,
                   resultChanClosed, wg, wg2, spawned, pcFeeder, next, pcWorker,
                   held, pcCollector, r, received>>

\* wg.Wait()
WaitWorkers ==
    /\ pcMain = "wait"
    /\ wg = 0
    /\ pcMain' = "close"
    /\ UNCHANGED <<visitors, numWorkers, countries, mu, workChanClosed, resultChan,
                   resultChanClosed, wg, wg2, spawned, pcFeeder, next, pcWorker,
                   held, pcCollector, r, received>>

\* close(resultChan)
CloseResults ==
    /\ pcMain = "close"
    /\ resultChanClosed' = TRUE
    /\ pcMain' = "wait2"
    /\ UNCHANGED <<visitors, numWorkers, countries, mu, workChanClosed, resultChan,
                   wg, wg2, spawned, pcFeeder, next, pcWorker, held, pcCollector, r,
                   received>>

\* ParallelLookup returning without wg2.Wait().
WaitCollectorSkipped ==
    /\ pcMain = "wait2"
    /\ pcMain' = "returned"
    /\ UNCHANGED <<visitors, numWorkers, countries, mu, workChanClosed, resultChan,
                   resultChanClosed, wg, wg2, spawned, pcFeeder, next, pcWorker,
                   held, pcCollector, r, received>>

\* wg2.Wait() and the return of ParallelLookup
WaitCollector ==
    /\ pcMain = "wait2"
    /\ wg2 = 0
    /\ pcMain' = "returned"
    /\ UNCHANGED <<visitors, numWorkers, countries, mu, workChanClosed, resultChan,
                   resultChanClosed, wg, wg2, spawned, pcFeeder, next, pcWorker,
                   held, pcCollector, r, received>>

\* workChan <- visitor delivered to every worker that waits to receive.
HandOverToAll(w) ==
    /\ pcFeeder = "send"
    /\ next <= Len(visitors)
    /\ pcWorker[w] = "receive"
    /\ held' = [x \in Workers |->
                  IF pcWorker[x] = "receive"
                  THEN [visitor |-> visitors[next], country |-> ""] ELSE held[x]]
    /\ pcWorker' = [x \in Workers |->
                      IF pcWorker[x] = "receive" THEN "lookup" ELSE pcWorker[x]]
    /\ next' = next + 1
    /\ UNCHANGED <<visitors, numWorkers, countries, mu, workChanClosed, resultChan,
                   resultChanClosed, wg, wg2, pcMain, spawned, pcFeeder,
                   pcCollector, r, received>>

\* workChan <- visitor meets a worker's receive: workChan is unbuffered, so
\* the feeder's send and the worker's receive are one step.
HandOver(w) ==
    /\ pcFeeder = "send"
    /\ next <= Len(visitors)
    /\ pcWorker[w] = "receive"
    /\ held' = [held EXCEPT ![w] = [visitor |-> visitors[next], country |-> ""]]
    /\ pcWorker' = [pcWorker EXCEPT ![w] = "lookup"]
    /\ next' = next + 1
    /\ UNCHANGED <<visitors, numWorkers, countries, mu, workChanClosed, resultChan,
                   resultChanClosed, wg, wg2, pcMain, spawned, pcFeeder,
                   pcCollector, r, received>>

\* The feeder ending after its loop without close(workChan).
CloseWorkForgotten ==
    /\ pcFeeder = "send"
    /\ next > Len(visitors)
    /\ pcFeeder' = "done"
    /\ UNCHANGED <<visitors, numWorkers, countries, mu, workChanClosed, resultChan,
                   resultChanClosed, wg, wg2, pcMain, spawned, next, pcWorker,
                   held, pcCollector, r, received>>

\* close(workChan), after the feeder's loop
CloseWork ==
    /\ pcFeeder = "send"
    /\ next > Len(visitors)
    /\ workChanClosed' = TRUE
    /\ pcFeeder' = "done"
    /\ UNCHANGED <<visitors, numWorkers, countries, mu, resultChan,
                   resultChanClosed, wg, wg2, pcMain, spawned, next, pcWorker,
                   held, pcCollector, r, received>>

\* The worker going on to its next visitor when the lookup fails, sending
\* no result.
ResolveDroppingFailures(w) ==
    /\ pcWorker[w] = "lookup"
    /\ LET res == lookupCountry(held[w].visitor)
       IN  /\ held' = [held EXCEPT ![w] =
                          [visitor |-> held[w].visitor, country |-> res.country]]
           /\ pcWorker' = [pcWorker EXCEPT ![w] =
                              IF res.err THEN "receive" ELSE "publish"]
    /\ UNCHANGED <<visitors, numWorkers, countries, mu, workChanClosed, resultChan,
                   resultChanClosed, wg, wg2, pcMain, spawned, pcFeeder, next,
                   pcCollector, r, received>>

\* country, err := cl.lookupCountry(visitor); on error country = "Vietnam"
Resolve(w) ==
    /\ pcWorker[w] = "lookup"
    /\ LET res == lookupCountry(held[w].visitor)
       IN  held' = [held EXCEPT ![w] =
                       [visitor |-> held[w].visitor,
                        country |-> IF res.err THEN "Vietnam" ELSE res.country]]
    /\ pcWorker' = [pcWorker EXCEPT ![w] = "publish"]
    /\ UNCHANGED <<visitors, numWorkers, countries, mu, workChanClosed, resultChan,
                   resultChanClosed, wg, wg2, pcMain, spawned, pcFeeder, next,
                   pcCollector, r, received>>

\* The result channel made with room for the workers, not for the visitors.
ResultCapPerWorker == numWorkers

\* make(chan result, len(visitors)): the capacity of the result channel
ResultCap == Len(visitors)

\* resultChan <- result{visitor, country}: blocks while the buffer is full,
\* panics on a closed channel.
Publish(w) ==
    /\ pcWorker[w] = "publish"
    /\ \/ /\ resultChanClosed
          /\ pcWorker' = [pcWorker EXCEPT ![w] = "panic"]
          /\ UNCHANGED resultChan
       \/ /\ ~resultChanClosed
          /\ Len(resultChan) < ResultCap
          /\ resultChan' = Append(resultChan, held[w])
          /\ pcWorker' = [pcWorker EXCEPT ![w] = "receive"]
    /\ UNCHANGED <<visitors, numWorkers, countries, mu, workChanClosed,
                   resultChanClosed, wg, wg2, pcMain, spawned, pcFeeder, next,
                   held, pcCollector, r, received>>

\* The worker's range loop ends on the closed work channel: defer wg.Done()
WorkerDone(w) ==
    /\ pcWorker[w] = "receive"
    /\ workChanClosed
    /\ wg' = wg - 1
    /\ pcWorker' = [pcWorker EXCEPT ![w] = "done"]
    /\ UNCHANGED <<visitors, numWorkers, countries, mu, workChanClosed, resultChan,
                   resultChanClosed, wg2, pcMain, spawned, pcFeeder, next, held,
                   pcCollector, r, received>>

\* for r := range resultChan
Collect ==
    /\ pcCollector = "receive"
    /\ resultChan # <<>>
    /\ r' = Head(resultChan)
    /\ received' = Append(received, Head(resultChan))
    /\ resultChan' = Tail(resultChan)
    /\ pcCollector' = "lock"
    /\ UNCHANGED <<visitors, numWorkers, countries, mu, workChanClosed,
                   resultChanClosed, wg, wg2, pcMain, spawned, pcFeeder, next,
                   pcWorker, held>>

\* The collector going on to the map without taking the lock.
LockSkipped ==
    /\ pcCollector = "lock"
    /\ pcCollector' = "store"
    /\ UNCHANGED <<visitors, numWorkers, countries, mu, workChanClosed, resultChan,
                   resultChanClosed, wg, wg2, pcMain, spawned, pcFeeder, next,
                   pcWorker, held, r, received>>

\* cl.mu.Lock()
Lock ==
    /\ pcCollector = "lock"
    /\ mu = "free"
    /\ mu' = "collector"
    /\ pcCollector' = "store"
    /\ UNCHANGED <<visitors, numWorkers, countries, workChanClosed, resultChan,
                   resultChanClosed, wg, wg2, pcMain, spawned, pcFeeder, next,
                   pcWorker, held, r, received>>

\* cl.countries[r.visitor] = r.country
Store ==
    /\ pcCollector = "store"
    /\ countries' = Put(countries, r.visitor, r.country)
    /\ pcCollector' = "unlock"
    /\ UNCHANGED <<visitors, numWorkers, mu, workChanClosed, resultChan,
                   resultChanClosed, wg, wg2, pcMain, spawned, pcFeeder, next,
                   pcWorker, held, r, received>>

\* cl.mu.Unlock()
Unlock ==
    /\ pcCollector = "unlock"
    /\ mu' = "free"
    /\ pcCollector' = "receive"
    /\ UNCHANGED <<visitors, numWorkers, countries, workChanClosed, resultChan,
                   resultChanClosed, wg, wg2, pcMain, spawned, pcFeeder, next,
                   pcWorker, held, r, received>>

\* The collector's range loop ends on the closed, drained result channel:
\* defer wg2.Done()
CollectorDone ==
    /\ pcCollector = "receive"
    /\ resultChan = <<>>
    /\ resultChanClosed
    /\ wg2' = wg2 - 1
    /\ pcCollector' = "done"
    /\ UNCHANGED <<visitors, numWorkers, countries, mu, workChanClosed, resultChan,
                   resultChanClosed, wg, pcMain, spawned, pcFeeder, next,
                   pcWorker, held, r, received>>

\* CountryLookup.Lookup(visitor)
Lookup(visitor) ==
    [country |-> IF visitor \in DOMAIN countries THEN countries[visitor] ELSE "",
     found   |-> visitor \in DOMAIN countries]

\* Lookup entering the map without cl.mu.RLock().
RLockSkipped ==
    /\ pcReader = "rlock"
    /\ pcReader' = "read"
    /\ UNCHANGED <<lookupVars, got>>

\* A routine calls Lookup while ParallelLookup runs.
\* cl.mu.RLock(): waits while the collector holds the write lock
RLock ==
    /\ pcReader = "rlock"
    /\ mu = "free"
    /\ mu' = "reader"
    /\ pcReader' = "read"
    /\ UNCHANGED <<visitors, numWorkers, countries, workChanClosed, resultChan,
                   resultChanClosed, wg, wg2, pcMain, spawned, pcFeeder, next,
                   pcWorker, held, pcCollector, r, got, received>>

\* ret, ok := cl.countries[visitor]; return ret, ok
ReadMap ==
    /\ pcReader = "read"
    /\ \E visitor \in Addresses :
          got' = IF Lookup(visitor).found
                 THEN Put(got, visitor, Lookup(visitor).country) ELSE got
    /\ pcReader' = "runlock"
    /\ UNCHANGED lookupVars

\* defer cl.mu.RUnlock(), and the next call of Lookup
RUnlock ==
    /\ pcReader = "runlock"
    /\ mu' = "free"
    /\ pcReader' = "rlock"
    /\ UNCHANGED <<visitors, numWorkers, countries, workChanClosed, resultChan,
                   resultChanClosed, wg, wg2, pcMain, spawned, pcFeeder, next,
                   pcWorker, held, pcCollector, r, got, received>>

----------------------------------------------------------------------------
(* Specifications *)

\* No ParallelLookup call is in progress.
NoLookup ==
    /\ visitors = <<>>
    /\ numWorkers = 0
    /\ countries = EmptyMap
    /\ mu = "free"
    /\ workChanClosed = FALSE
    /\ resultChan = <<>>
    /\ resultChanClosed = FALSE
    /\ wg = 0
    /\ wg2 = 0
    /\ pcMain = "off"
    /\ spawned = 0
    /\ pcFeeder = "off"
    /\ next = 1
    /\ pcWorker = [w \in Workers |-> "off"]
    /\ held = [w \in Workers |-> NoResult]
    /\ pcCollector = "off"
    /\ r = NoResult
    /\ received = <<>>

\* No routine calls Lookup.
NoReader == pcReader = "off" /\ got = EmptyMap

\* LookupCountries is not running; Opened: a CountryLookup exists.
NoCountries == pcCountries = "off" /\ db = "none" /\ opens = 0 /\ closes = 0
Opened == pcCountries = "off" /\ db = "open" /\ opens = 1 /\ closes = 0

\* The command's action is not running.
NoRun == pcRun = "off" /\ actionErr = "nil"

\* The value of a view: the maps the four views return, empty when the
\* view was not the one called.
NoValue ==
    [name |-> "", byMonth |-> EmptyMap, recent |-> EmptyMap,
     methods |-> EmptyMap, codes |-> EmptyMap, countries |-> EmptyMap]

\* No consumer reads the accumulator.
NoView == pcView = "off" /\ view = NoValue

Init == InitLog /\ NoLookup /\ NoReader /\ NoCountries /\ NoRun /\ NoView

Next ==
    \/ \E l \in Lines : ProcessLine(l) /\ UNCHANGED aroundLog
    \/ \E l \in Lines : SkipLine(l) /\ UNCHANGED aroundLog

\* ProcessLog folding a log file into a fresh accumulator.
Spec == Init /\ [][Next]_vars

InitParallel == InitLog /\ InitLookup /\ NoReader /\ Opened /\ NoRun /\ NoView

NextParallel ==
    \/ StartWorker /\ UNCHANGED aroundLookup
    \/ StartFeeder /\ UNCHANGED aroundLookup
    \/ StartCollector /\ UNCHANGED aroundLookup
    \/ WaitWorkers /\ UNCHANGED aroundLookup
    \/ CloseResults /\ UNCHANGED aroundLookup
    \/ WaitCollector /\ UNCHANGED aroundLookup
    \/ CloseWork /\ UNCHANGED aroundLookup
    \/ \E w \in Workers : HandOver(w) /\ UNCHANGED aroundLookup
    \/ \E w \in Workers : Resolve(w) /\ UNCHANGED aroundLookup
    \/ \E w \in Workers : Publish(w) /\ UNCHANGED aroundLookup
    \/ \E w \in Workers : WorkerDone(w) /\ UNCHANGED aroundLookup
    \/ Collect /\ UNCHANGED aroundLookup
    \/ Lock /\ UNCHANGED aroundLookup
    \/ Store /\ UNCHANGED aroundLookup
    \/ Unlock /\ UNCHANGED aroundLookup
    \/ CollectorDone /\ UNCHANGED aroundLookup

\* One call of ParallelLookup on a fresh CountryLookup.
SpecParallel == InitParallel /\ [][NextParallel]_vars

\* ParallelLookup under a scheduler that lets some routine run whenever one
\* can take a step; every step of a routine, a lookup included, terminates.
SpecParallelFair == SpecParallel /\ WF_vars(NextParallel)

InitConcurrent ==
    InitLog /\ InitLookup /\ pcReader = "rlock" /\ got = EmptyMap /\ Opened /\ NoRun /\ NoView

NextConcurrent ==
    \/ NextParallel
    \/ RLock /\ UNCHANGED <<logVars, countryVars, runVars, viewVars>>
    \/ ReadMap /\ UNCHANGED <<logVars, countryVars, runVars, viewVars>>
    \/ RUnlock /\ UNCHANGED <<logVars, countryVars, runVars, viewVars>>

\* One call of ParallelLookup while another routine calls Lookup.
SpecConcurrent == InitConcurrent /\ [][NextConcurrent]_vars

----------------------------------------------------------------------------
(* Properties of ProcessLog *)

Accepted(l) == Extract(l).ok

\* The entries of the lines that Extract accepts.
RecordsOf(lines) ==
    LET good == SelectSeq(lines, Accepted)
    IN  [i \in 1..Len(good) |-> Extract(good[i]).entry]

\* The timestamps of the records of address a among recs, in order.
RECURSIVE StampsIn(_, _)
StampsIn(a, recs) ==
    IF recs = <<>> THEN <<>>
    ELSE LET rest == StampsIn(a, SubSeq(recs, 1, Len(recs) - 1))
             last == recs[Len(recs)]
         IN  IF last.IP = a THEN Append(rest, last.Timestamp) ELSE rest

StampsOf(a) == StampsIn(a, records)

SeenAddresses == {records[i].IP : i \in 1..Len(records)}

\* Every day key of any per-day map.
DayKeys ==
    DOMAIN stats.Hits \cup DOMAIN stats.Files \cup DOMAIN stats.Pages
        \cup DOMAIN stats.Bytes \cup DOMAIN stats.Visits \cup DOMAIN stats.Sites
        \cup DOMAIN stats.Methods \cup DOMAIN stats.RespCodes \cup DOMAIN stats.IPs
        \cup DOMAIN stats.UserAgents \cup DOMAIN stats.URLPaths
        \cup DOMAIN stats.Referrers

\* The sum over all days of Visits[day][a].
RECURSIVE VisitTotalOver(_, _)
VisitTotalOver(a, days) ==
    IF days = {} THEN 0
    ELSE LET d == CHOOSE x \in days : TRUE
         IN  Get(stats.Visits[d], a) + VisitTotalOver(a, days \ {d})

VisitTotal(a) == VisitTotalOver(a, DOMAIN stats.Visits)

\* The records of a that come more than the timeout after a's previous record.
LateRecords(a) ==
    LET ts == StampsOf(a)
    IN  Cardinality({i \in 2..Len(ts) : Sub(ts[i], ts[i - 1]) > visitTimeout})

\* C1: for every address with records, the visits recorded over all days are
\* 1 plus the number of its records that come more than 600 seconds after
\* the address's previous record.
C1_VisitsCountGaps ==
    \A a \in SeenAddresses : VisitTotal(a) = 1 + LateRecords(a)

\* C2: the first record of an address is a new visit whatever its timestamp:
\* with one record of a processed, Visits[day][a] is 1 and the record was
\* folded into the per-address entry as a new visit.
C2_FirstRecordIsNewVisit ==
    \A a \in SeenAddresses :
        Len(StampsOf(a)) = 1 =>
            LET day == Format(StampsOf(a)[1])
            IN  /\ Get(GetMap(stats.Visits, day), a) = 1
                /\ GetHBV(GetMap(stats.IPs, day), a).Visits = 1

\* A step of the scanner loop that folded a record.
Folded == Len(records') = Len(records) + 1

LastLine(lines) == lines[Len(lines)]

\* The visit counters an accumulator holds for address a and user agent u
\* on a day.
VisitCounters(s, day, a, u) ==
    <<Get(GetMap(s.Visits, day), a),
      GetHBV(GetMap(s.IPs, day), a).Visits,
      GetHBV(GetMap(s.UserAgents, day), u).Visits>>

\* C3: the timeout comparison is strict.  A record exactly 600 seconds after
\* the previous record of its address changes no visit counter; a record
\* more than 600 seconds after it adds 1 to the visit counters of its day.
C3_TimeoutIsStrict ==
    [][ Folded =>
          LET e    == LastLine(records')
              day  == Format(e.Timestamp)
              prev == StampsOf(e.IP)
              gap  == Sub(e.Timestamp, prev[Len(prev)])
              old  == VisitCounters(stats, day, e.IP, e.UserAgent)
              new  == VisitCounters(stats', day, e.IP, e.UserAgent)
          IN  prev # <<>> =>
                /\ gap = visitTimeout => /\ stats'.Visits = stats.Visits
                                         /\ new = old
                /\ gap > visitTimeout => /\ new[1] = old[1] + 1
                                         /\ new[2] = old[2] + 1
                                         /\ new[3] = old[3] + 1 ]_vars

\* The last two records of the input come from one address, the gap between
\* them is g seconds.
LastGapIs(g) ==
    /\ Len(records) >= 2
    /\ records[Len(records)].IP = records[Len(records) - 1].IP
    /\ Sub(records[Len(records)].Timestamp, records[Len(records) - 1].Timestamp) = g

\* Witness of C3: a record exactly 600 s after its predecessor was folded
\* and the address still has the one visit of its first record.
C3_Witness ==
    /\ Len(input) = 2 /\ Len(records) = 2
    /\ LastGapIs(visitTimeout)
    /\ VisitTotal(records[1].IP) = 1

\* C4: for every day key, Hits[day] >= Files[day] and Hits[day] >= Pages[day].
C4_HitsBoundFilesPages ==
    \A d \in DayKeys :
        /\ Get(stats.Hits, d) >= Get(stats.Files, d)
        /\ Get(stats.Hits, d) >= Get(stats.Pages, d)

\* Witness of C4: a day with files and pages, and a hit that is neither.
C4_Witness ==
    \E d \in DayKeys :
        /\ Get(stats.Files, d) >= 1
        /\ Get(stats.Pages, d) >= 1
        /\ Get(stats.Hits, d) > Get(stats.Files, d)
        /\ Get(stats.Hits, d) > Get(stats.Pages, d)

\* Sums of the hit counts of a day's per-entity entries.
HitsOf(m) == SumMap([k \in DOMAIN m |-> m[k].Hits])

URLHitsOf(m) == SumMap([p \in DOMAIN m |-> HitsOf(m[p])])

\* C5: for every day key present in any nested per-day map, Hits[day] is at
\* least the sum over entities of each subordinate counter of that day.
C5_HitsBoundSubordinates ==
    \A d \in DayKeys :
        LET h == Get(stats.Hits, d)
        IN  /\ h >= SumMap(GetMap(stats.Sites, d))
            /\ h >= SumMap(GetMap(stats.Methods, d))
            /\ h >= SumMap(GetMap(stats.RespCodes, d))
            /\ h >= HitsOf(GetMap(stats.IPs, d))
            /\ h >= HitsOf(GetMap(stats.UserAgents, d))
            /\ h >= URLHitsOf(GetMap(stats.URLPaths, d))
            /\ h >= HitsOf(GetMap(stats.Referrers, d))
            /\ h >= SumMap(GetMap(stats.Visits, d))

\* Witness of C5: a day with three hits of two addresses, two methods and
\* two referrers, and fewer visits than hits.
C5_Witness ==
    \E d \in DayKeys :
        /\ Get(stats.Hits, d) = 3
        /\ Cardinality(DOMAIN GetMap(stats.Sites, d)) = 2
        /\ Cardinality(DOMAIN GetMap(stats.Methods, d)) = 2
        /\ Cardinality(DOMAIN GetMap(stats.Referrers, d)) = 2
        /\ SumMap(GetMap(stats.Visits, d)) = 2

\* The input is three records of one address at t0, t0 + 100 s and
\* t0 + 700 s, all on one day, with response code 200, a page path and
\* size 500.
ThreeHitScenario ==
    /\ Len(input) = 3 /\ Len(records) = 3
    /\ \A i \in 1..3 :
          /\ records[i].IP = records[1].IP
          /\ Format(records[i].Timestamp) = Format(records[1].Timestamp)
          /\ records[i].RespCode = 200
          /\ MatchesFileExt(records[i].URLPath)
          /\ records[i].Size = 500
    /\ Sub(records[2].Timestamp, records[1].Timestamp) = 100
    /\ Sub(records[3].Timestamp, records[1].Timestamp) = 700

ScenarioTotals(visits) ==
    LET day == Format(records[1].Timestamp)
    IN  /\ Get(stats.Hits, day) = 3
        /\ Get(stats.Files, day) = 3
        /\ Get(stats.Pages, day) = 3
        /\ Get(stats.Bytes, day) = 1500
        /\ SumMap(GetMap(stats.Visits, day)) = visits

\* C6 as stated: the scenario yields Hits=3, Files=3, Pages=3, Bytes=1500
\* and a visit total of 2.
C6_ScenarioTwoVisits == ThreeHitScenario => ScenarioTotals(2)

\* C6 as amended: the scenario yields Hits=3, Files=3, Pages=3, Bytes=1500
\* and a visit total of 1, the third record being exactly 600 s after the
\* second; the total is 0 when t0 is not more than 600 s after the zero
\* time, where the first record is no new visit either.
C6_ScenarioOneVisit ==
    ThreeHitScenario =>
        ScenarioTotals(IF Sub(records[1].Timestamp, ZeroTime) > visitTimeout
                       THEN 1 ELSE 0)

\* Witness of C6: the scenario was processed with t0 in 2024.
C6_Witness == ThreeHitScenario /\ records[1].Timestamp.y = 2024

\* Folding the records of a sequence of lines into a fresh accumulator.
RECURSIVE Fold(_)
Fold(recs) ==
    IF recs = <<>> THEN NewLogStats
    ELSE Accumulate(Fold(SubSeq(recs, 1, Len(recs) - 1)), recs[Len(recs)])

\* C7: a line that fails extraction is skipped.  The accumulator is what the
\* accepted lines alone fold to, and the scanner has gone on to count every
\* line delivered.
C7_BadLinesSkipped ==
    /\ stats = Fold(RecordsOf(input))
    /\ lineNr = Len(input)

\* Witness of C7: lines rejected for their timestamp, their size or the
\* grammar.  One of them was skipped and a later line was folded.
C7_Witness ==
    /\ Len(input) = 3
    /\ ~Accepted(input[1]) /\ ~Accepted(input[2]) /\ Accepted(input[3])
    /\ unmarshalTimestamp(input[1].ts).err
    /\ unmarshalSize(input[2].size).err
    /\ stats.Hits # EmptyMap

\* The hit and byte counters a record touches.
Touched(s, e) ==
    LET day == Format(e.Timestamp)
        ip  == GetHBV(GetMap(s.IPs, day), e.IP)
        ua  == GetHBV(GetMap(s.UserAgents, day), e.UserAgent)
        url == GetHB(GetMap(GetMap(s.URLPaths, day), e.URLPath), e.Method)
        ref == GetHB(GetMap(s.Referrers, day), e.Referrer)
    IN  [hits  |-> <<Get(s.Hits, day), ip.Hits, ua.Hits, url.Hits, ref.Hits>>,
         bytes |-> <<Get(s.Bytes, day), ip.Bytes, ua.Bytes, url.Bytes, ref.Bytes>>]

\* C8: a record whose size field is exactly "-" has size 0 and adds 0 to
\* every byte counter it touches while adding 1 to the hit counters.
C8_DashSizeAddsNoBytes ==
    [][ (Folded /\ LastLine(input').size = <<45>>) =>
          LET e   == LastLine(records')
              old == Touched(stats, e)
              new == Touched(stats', e)
          IN  /\ e.Size = 0
              /\ new.bytes = old.bytes
              /\ \A i \in 1..5 : new.hits[i] = old.hits[i] + 1 ]_vars

\* Witness of C8: a record of size "-" was folded into a day and an address
\* that already carried bytes.
C8_Witness ==
    /\ input # <<>>
    /\ Accepted(LastLine(input))
    /\ LastLine(input).size = <<45>>
    /\ LET e == LastLine(records)
       IN  /\ Touched(stats, e).bytes[1] > 0
           /\ Touched(stats, e).bytes[2] > 0
           /\ Touched(stats, e).hits[2] >= 2

----------------------------------------------------------------------------
(* Properties of ParallelLookup *)

\* C10: when ParallelLookup has returned, Lookup finds every address of the
\* submitted list, for every worker count NewCountryLookup accepts.
C10_ReturnedMeansMerged ==
    pcMain = "returned" =>
        \A i \in 1..Len(visitors) : Lookup(visitors[i]).found

\* The workers that have been started.
Started == 1..spawned

\* C11: no worker ever blocks when publishing a result.  The results sent
\* and not yet received never exceed the capacity len(visitors), and a
\* worker that is about to send finds room in the buffer, whatever the
\* collector has done so far.
C11_PublishNeverBlocks ==
    /\ Len(resultChan) <= Len(visitors)
    /\ \A w \in Workers :
          pcWorker[w] = "publish" => Len(resultChan) < ResultCap

\* Witness of C11: the collector has received nothing, one result waits in
\* the buffer and a worker is about to send the second.
C11_Witness ==
    /\ Len(visitors) = 2
    /\ Len(resultChan) = 1
    /\ countries = EmptyMap /\ pcCollector \in {"off", "receive"}
    /\ \E w \in Workers : pcWorker[w] = "publish"

\* C12: the work channel is closed only after every address was handed to a
\* worker, the result channel only after every worker has finished; nothing
\* is sent on a closed channel and the collector does not exit while a
\* result is unsent or unread.
C12_ChannelsClosedInOrder ==
    /\ workChanClosed => next > Len(visitors) /\ pcFeeder = "done"
    /\ resultChanClosed =>
          /\ spawned = numWorkers
          /\ \A w \in Started : pcWorker[w] = "done"
    /\ \A w \in Workers : pcWorker[w] # "panic"
    /\ pcCollector = "done" =>
          /\ resultChan = <<>>
          /\ \A w \in Workers : pcWorker[w] \notin {"lookup", "publish"}

\* Witness of C12: both channels are closed, two workers have finished and
\* the collector still has a result to read.
C12_Witness ==
    /\ workChanClosed /\ resultChanClosed
    /\ numWorkers = 2
    /\ resultChan # <<>>
    /\ pcCollector # "done"

\* C13: the cache map is written only by the collector and only while it
\* holds the write lock; no step of a worker changes the map, and the
\* collector is never at its write while another routine reads the map.
C13_MapWrittenUnderLock ==
    /\ [](pcCollector \in {"store", "unlock"} <=> mu = "collector")
    /\ [](~(pcCollector = "store" /\ pcReader = "read"))
    /\ [][countries' # countries =>
              /\ pcCollector = "store" /\ pcCollector' = "unlock"
              /\ mu = "collector"
              /\ pcWorker' = pcWorker /\ pcReader' = pcReader]_vars

\* Witness of C13: a routine waits for the read lock while the collector
\* holds the write lock and is about to store a result.
C13_Witness ==
    /\ pcCollector = "store" /\ mu = "collector"
    /\ pcReader = "rlock"
    /\ \E w \in Workers : pcWorker[w] \in {"lookup", "publish"}

\* The resolution of a visitor fails: the name does not resolve, resolves
\* to no address, or the database lookup fails.
ResolutionFails(visitor) ==
    \/ ~ParseIP(visitor) /\ (LookupIP(visitor).err \/ Len(LookupIP(visitor).ips) = 0)
    \/ Country(IF ParseIP(visitor) THEN visitor ELSE LookupIP(visitor).ips[1]).err

\* C14: for every address whose resolution fails the value stored in the
\* cache is the fallback country "Vietnam", and the batch continues: with a
\* worker at hand every address of the list is stored when the call returns.
C14_FailureStoresFallback ==
    /\ \A v \in DOMAIN countries :
          ResolutionFails(v) => countries[v] = "Vietnam"
    /\ (pcMain = "returned" /\ numWorkers >= 1) =>
          \A i \in 1..Len(visitors) : visitors[i] \in DOMAIN countries

----------------------------------------------------------------------------
(* LookupCountries *)

\* uniqueVisitors: the addresses of all days, each once.
uniqueVisitors(visitorsByDate) ==
    UNION {DOMAIN visitorsByDate[d] : d \in DOMAIN visitorsByDate}

\* The orders in which the iteration of a map may deliver a set of keys.
Orderings(S) ==
    {q \in [1..Cardinality(S) -> S] :
        \A i, j \in 1..Cardinality(S) : i # j => q[i] # q[j]}

\* NewCountryLookup("./GeoLite2-Country.mmdb", 32): the size of the pool
lookupWorkers == 32

\* The pool as modelled: workers beyond the length of the visitor list
\* start and end without ever receiving a visitor.
PoolSize == IF lookupWorkers < MaxWorkers THEN lookupWorkers ELSE MaxWorkers

\* The merge counting an address once, whatever its visits.
MergeVisitorOnce(ctr, date, visitor, visits) ==
    LET made == IF date \in DOMAIN ctr THEN ctr ELSE Put(ctr, date, EmptyMap)
    IN  IF Lookup(visitor).found
        THEN Add2(made, date, Lookup(visitor).country, 1)
        ELSE made

\* The body of the merge loop for one address of one day.
MergeVisitor(ctr, date, visitor, visits) ==
    LET made == IF date \in DOMAIN ctr THEN ctr ELSE Put(ctr, date, EmptyMap)
    IN  IF Lookup(visitor).found
        THEN Add2(made, date, Lookup(visitor).country, visits)
        ELSE made

\* for visitor, visits := range ipMaps
RECURSIVE MergeDay(_, _, _, _)
MergeDay(ctr, date, ipMaps, todo) ==
    IF todo = {} THEN ctr
    ELSE LET visitor == CHOOSE v \in todo : TRUE
         IN  MergeDay(MergeVisitor(ctr, date, visitor, ipMaps[visitor]),
                      date, ipMaps, todo \ {visitor})

\* for date, ipMaps := range stats.Visits
RECURSIVE MergeDays(_, _, _)
MergeDays(ctr, visits, todo) ==
    IF todo = {} THEN ctr
    ELSE LET date == CHOOSE d \in todo : TRUE
         IN  MergeDays(MergeDay(ctr, date, visits[date], DOMAIN visits[date]),
                       visits, todo \ {date})

\* The merge writing its counts into Visits as well.
MergeIntoVisits(s) ==
    [s EXCEPT !.CtrVisits = MergeDays(s.CtrVisits, s.Visits, DOMAIN s.Visits),
              !.Visits = MergeDays(s.Visits, s.Visits, DOMAIN s.Visits)]

\* The merge loop of LookupCountries.
Merge(s) ==
    [s EXCEPT !.CtrVisits = MergeDays(s.CtrVisits, s.Visits, DOMAIN s.Visits)]

\* recentKeys with the month taken off the last day before the day is added.
recentKeysMonthFirst(s) ==
    LET keys     == DOMAIN s.Hits
        lastKey  == IF keys = {} THEN Format(ZeroTime)
                    ELSE CHOOSE k \in keys : \A x \in keys : ~KeyLess(k, x)
        lastTime == AddDate(lastKey, 0, 0, 1)
        firstTime == AddDate(AddDate(lastKey, 0, -1, 0), 0, 0, 1)
    IN  {key \in keys : ~KeyLess(key, firstTime) /\ KeyLess(key, lastTime)}

\* recentKeys: the day keys of Hits in the month that ends with the last one.
recentKeys(s) ==
    LET keys     == DOMAIN s.Hits
        lastKey  == IF keys = {} THEN Format(ZeroTime)
                    ELSE CHOOSE k \in keys : \A x \in keys : ~KeyLess(k, x)
        lastTime == AddDate(lastKey, 0, 0, 1)
        firstTime == AddDate(lastTime, 0, -1, 0)
    IN  {key \in keys : ~KeyLess(key, firstTime) /\ KeyLess(key, lastTime)}

\* CountryAggregates: per country the sum over the recent days.
CountryAggregates(s) ==
    LET daysKeys == recentKeys(s)
        names == UNION {DOMAIN GetMap(s.CtrVisits, d) : d \in daysKeys}
    IN  [c \in names |->
            SumOver([d \in daysKeys |-> Get(GetMap(s.CtrVisits, d), c)], daysKeys)]

\* The logs whose accumulators LookupCountries is called on.
Logs ==
    { <<>>,
      <<PageLine("a", T0), PageLine("a", T700)>>,
      <<PageLine("a", T0), ImageLine("b", T0)>>,
      <<PageLine("b", T0), PageLine("h", T0), PageLine("b", T700)>>,
      <<PageLine("e", T0), PageLine("a", TFeb)>>,
      <<PageLine("a", Z100), ImageLine("b", T0), PageLine("b", TFeb)>> }

\* ProcessLog has folded a log; LookupCountries is called on the result.
InitCountries ==
    /\ input \in Logs
    /\ records = RecordsOf(input)
    /\ lineNr = Len(input)
    /\ stats = Fold(records)
    /\ pcCountries = "call" /\ db = "none" /\ opens = 0 /\ closes = 0

\* NewCountryLookup succeeds; uniqueVisitors; ParallelLookup is called.
OpenDatabase ==
    /\ pcCountries = "call"
    /\ db' = "open"
    /\ opens' = opens + 1
    /\ visitors' \in Orderings(uniqueVisitors(stats.Visits))
    /\ numWorkers' = PoolSize
    /\ pcMain' = "spawn"
    /\ pcCountries' = "lookup"
    /\ UNCHANGED <<countries, mu, workChanClosed, resultChan, resultChanClosed,
                   wg, wg2, spawned, pcFeeder, next, pcWorker, held,
                   pcCollector, r, received>>
    /\ UNCHANGED <<logVars, readerVars, closes, runVars, viewVars>>

\* The error of geoip2.Open dropped: the call goes on without a database.
OpenFailsIgnored ==
    /\ pcCountries = "call"
    /\ db' = "failed"
    /\ visitors' \in Orderings(uniqueVisitors(stats.Visits))
    /\ numWorkers' = PoolSize
    /\ pcMain' = "spawn"
    /\ pcCountries' = "lookup"
    /\ UNCHANGED <<countries, mu, workChanClosed, resultChan, resultChanClosed,
                   wg, wg2, spawned, pcFeeder, next, pcWorker, held,
                   pcCollector, r, received>>
    /\ UNCHANGED <<logVars, readerVars, opens, closes, runVars, viewVars>>

\* geoip2.Open fails: if err != nil { return err }
OpenFails ==
    /\ pcCountries = "call"
    /\ db' = "failed"
    /\ pcCountries' = "failed"
    /\ UNCHANGED <<logVars, lookupVars, readerVars, opens, closes, runVars, viewVars>>

\* ParallelLookup has returned: the merge loop.
MergeCountries ==
    /\ pcCountries = "lookup"
    /\ pcMain = "returned"
    /\ stats' = Merge(stats)
    /\ pcCountries' = "close"
    /\ UNCHANGED <<lineNr, input, records, lookupVars, readerVars, db, opens,
                   closes, runVars, viewVars>>

\* The database closed while ParallelLookup is still running.
CloseDatabaseEarly ==
    /\ pcCountries \in {"lookup", "close"}
    /\ db = "open"
    /\ db' = "closed"
    /\ closes' = closes + 1
    /\ pcCountries' = IF pcCountries = "close" THEN "returned" ELSE pcCountries
    /\ UNCHANGED <<logVars, lookupVars, readerVars, opens, runVars, viewVars>>

\* defer cl.Close(), then return nil
CloseDatabase ==
    /\ pcCountries = "close"
    /\ db' = "closed"
    /\ closes' = closes + 1
    /\ pcCountries' = "returned"
    /\ UNCHANGED <<logVars, lookupVars, readerVars, opens, runVars, viewVars>>

InitLookupCountries == InitCountries /\ NoLookup /\ NoReader /\ NoRun /\ NoView

NextLookupCountries ==
    \/ NextParallel
    \/ OpenDatabase
    \/ OpenFails
    \/ MergeCountries
    \/ CloseDatabase

\* One call of LookupCountries on the accumulator of a folded log.
SpecCountries == InitLookupCountries /\ [][NextLookupCountries]_vars

----------------------------------------------------------------------------
(* Properties of LookupCountries *)

\* The merge loop has run.
Merged == pcCountries \in {"close", "returned"}

AllDays == DOMAIN stats.Visits \cup DOMAIN stats.CtrVisits \cup DOMAIN stats.Hits

AllCountries ==
    {"", "Netherlands", "Vietnam"}
        \cup UNION {DOMAIN stats.CtrVisits[d] : d \in DOMAIN stats.CtrVisits}

\* The addresses of day d whose cache entry is country c.
CachedAs(d, c) ==
    {a \in DOMAIN GetMap(stats.Visits, d) :
        Lookup(a).found /\ Lookup(a).country = c}

\* The address reaches the database and its lookup there fails.
DatabaseFails(a) ==
    /\ ParseIP(a) \/ (~LookupIP(a).err /\ Len(LookupIP(a).ips) > 0)
    /\ Country(IF ParseIP(a) THEN a ELSE LookupIP(a).ips[1]).err

\* The visits of day d under country c, without the addresses whose
\* database lookup failed.
ResolvedVisits(d, c) ==
    SumOver(GetMap(stats.Visits, d), {a \in CachedAs(d, c) : ~DatabaseFails(a)})

\* C15: the visits of an address whose database lookup fails are added to
\* no country bucket of CtrVisits and to no CountryAggregates total, while
\* Visits, Sites and IPs stay as they were before the call.
C15_FailedLookupsExcluded ==
    Merged =>
        /\ \A d \in AllDays, c \in AllCountries :
              Get(GetMap(stats.CtrVisits, d), c) = ResolvedVisits(d, c)
        /\ \A c \in AllCountries :
              Get(CountryAggregates(stats), c) =
                  SumOver([d \in recentKeys(stats) |-> ResolvedVisits(d, c)],
                          recentKeys(stats))
        /\ stats.Visits = Fold(records).Visits
        /\ stats.Sites = Fold(records).Sites
        /\ stats.IPs = Fold(records).IPs

\* C16: after LookupCountries on an accumulator with an empty CtrVisits,
\* CtrVisits[d][c] is the sum of Visits[d][a] over the addresses a whose
\* cache entry is c, for every day d and country c; addresses without a
\* cache entry add nothing.
C16_CountrySums ==
    Merged =>
        \A d \in AllDays, c \in AllCountries :
            Get(GetMap(stats.CtrVisits, d), c) =
                SumOver(GetMap(stats.Visits, d), CachedAs(d, c))

\* Witness of C16: two addresses of one day, three visits together, were
\* merged into one country.
C16_Witness ==
    /\ Merged
    /\ \E d \in AllDays, c \in AllCountries :
          /\ Cardinality(CachedAs(d, c)) = 2
          /\ Get(GetMap(stats.CtrVisits, d), c) = 3

\* C17: LookupCountries changes only CtrVisits; every other field of the
\* accumulator is what ProcessLog left, resolved addresses or not.
C17_OnlyCtrVisitsChanges ==
    stats = [Fold(records) EXCEPT !.CtrVisits = stats.CtrVisits]

\* Witness of C17: the merge has filled CtrVisits and an address of the
\* list was not resolved.
C17_Witness ==
    /\ Merged
    /\ stats.CtrVisits # Fold(records).CtrVisits
    /\ \E a \in DOMAIN countries : ResolutionFails(a)

\* C18: the database is opened once and, once open, closed exactly once on
\* return; it is closed only after ParallelLookup has returned, so that no
\* worker queries a closed database, failed lookups or not.
C18_DatabaseClosedOnce ==
    /\ opens <= 1 /\ closes <= 1
    /\ db = "closed" =>
          /\ pcMain = "returned"
          /\ \A w \in Workers : pcWorker[w] \in {"off", "done"}
    /\ \A w \in Workers : pcWorker[w] = "lookup" => db = "open"
    /\ pcCountries = "returned" => opens = 1 /\ closes = 1 /\ db = "closed"
    /\ pcCountries = "failed" => opens = 0 /\ closes = 0

\* Witness of C18: LookupCountries has returned, a lookup had failed, and
\* the database is closed.
C18_Witness ==
    /\ pcCountries = "returned" /\ db = "closed"
    /\ \E a \in DOMAIN countries : ResolutionFails(a)

\* C19: if the database cannot be opened, LookupCountries returns the
\* error, starts no worker, performs no lookup and leaves every map of the
\* accumulator, CtrVisits included, unchanged.
C19_OpenFailureChangesNothing ==
    db = "failed" =>
        /\ pcCountries = "failed"
        /\ pcMain = "off" /\ spawned = 0 /\ pcFeeder = "off" /\ pcCollector = "off"
        /\ \A w \in Workers : pcWorker[w] = "off"
        /\ countries = EmptyMap
        /\ stats = Fold(records)

\* Witness of C19: the open has failed on an accumulator with visits.
C19_Witness == db = "failed" /\ stats.Visits # EmptyMap

----------------------------------------------------------------------------
(* The command's action (cmd/main.go) *)

\* The numbers of arguments the command is run with.
ArgCounts == 0..2

\* if cmd.NArg() != 1 { return fmt.Errorf(...) }
UsageError ==
    /\ pcRun = "args"
    /\ \E n \in ArgCounts : n # 1
    /\ pcRun' = "usage"
    /\ actionErr' = "err"
    /\ UNCHANGED <<logVars, lookupVars, readerVars, countryVars, viewVars>>

\* One argument: ProcessLog(fileName) is called.
CallProcessLog ==
    /\ pcRun = "args"
    /\ \E n \in ArgCounts : n = 1
    /\ pcRun' = "open"
    /\ UNCHANGED <<logVars, lookupVars, readerVars, countryVars, viewVars, actionErr>>

\* os.Open fails: ProcessLog prints the error and returns it; the action's
\* `if err != nil { return nil }`.
OpenFileFails ==
    /\ pcRun = "open"
    /\ pcRun' = "noFile"
    /\ actionErr' = "nil"
    /\ UNCHANGED <<logVars, lookupVars, readerVars, countryVars, viewVars>>

\* os.Open succeeds: the scanner loop starts.
OpenFile ==
    /\ pcRun = "open"
    /\ pcRun' = "scan"
    /\ UNCHANGED <<logVars, lookupVars, readerVars, countryVars, viewVars, actionErr>>

\* scanner.Err() is not nil: ProcessLog returns the error, the action nil.
ScanFails ==
    /\ pcRun = "scan"
    /\ pcRun' = "scanErr"
    /\ actionErr' = "nil"
    /\ UNCHANGED <<logVars, lookupVars, readerVars, countryVars, viewVars>>

\* The scanner reaches the end of the file: the action aggregates, renders
\* and returns nil.
Render ==
    /\ pcRun = "scan"
    /\ pcRun' = "rendered"
    /\ actionErr' = "nil"
    /\ UNCHANGED <<logVars, lookupVars, readerVars, countryVars, viewVars>>

\* if err := cmd.Run(...); err != nil { log.Fatal(err) }: the exit status
ExitCode == IF actionErr = "nil" THEN 0 ELSE 1

InitRun ==
    InitLog /\ NoLookup /\ NoReader /\ NoCountries
        /\ pcRun = "args" /\ actionErr = "nil" /\ NoView

NextRun ==
    \/ UsageError
    \/ CallProcessLog
    \/ OpenFileFails
    \/ OpenFile
    \/ \E l \in Lines : pcRun = "scan" /\ ProcessLine(l) /\ UNCHANGED aroundLog
    \/ \E l \in Lines : pcRun = "scan" /\ SkipLine(l) /\ UNCHANGED aroundLog
    \/ ScanFails
    \/ Render

\* One run of the command.
SpecRun == InitRun /\ [][NextRun]_vars

\* C20: if the input file cannot be opened the run ends with a failure
\* exit, the action reporting an error; a run whose file opens and is read
\* to its end ends with success, skipped lines or not.
C20_ExitReflectsOpen ==
    /\ pcRun = "noFile" => actionErr = "err" /\ ExitCode # 0
    /\ pcRun = "rendered" => actionErr = "nil" /\ ExitCode = 0

----------------------------------------------------------------------------
(* Further properties of ProcessLog *)

\* The timestamps are non-decreasing instants.
NonDecreasing(stamps) ==
    \A i \in 1..(Len(stamps) - 1) : Sub(stamps[i + 1], stamps[i]) >= 0

\* C27: for an address whose records come with non-decreasing timestamps,
\* LastVisit[a] is the timestamp of its latest record, new visit or not, and
\* never decreases; FirstVisit[a] is the timestamp of its first record and
\* never changes; FirstVisit[a] <= LastVisit[a].
C27_VisitTimesTrackRecords ==
    /\ [](\A a \in SeenAddresses :
            NonDecreasing(StampsOf(a)) =>
                /\ stats.LastVisit[a] = StampsOf(a)[Len(StampsOf(a))]
                /\ stats.FirstVisit[a] = StampsOf(a)[1]
                /\ Sub(stats.LastVisit[a], stats.FirstVisit[a]) >= 0)
    /\ [][\A a \in SeenAddresses :
            NonDecreasing(StampsIn(a, records')) =>
                /\ Sub(stats'.LastVisit[a], stats.LastVisit[a]) >= 0
                /\ stats'.FirstVisit[a] = stats.FirstVisit[a]]_vars

\* Witness of C27: an address has hit twice within the timeout, so that its
\* second record is no new visit, and a third time after that.
C27_Witness ==
    /\ Len(StampsOf("a")) = 3
    /\ Sub(StampsOf("a")[2], StampsOf("a")[1]) \in 1..visitTimeout
    /\ Sub(StampsOf("a")[3], StampsOf("a")[2]) >= visitTimeout
    /\ StampsOf("a")[1].y = 2024

\* C30: every day key of any per-day map is a key of Hits with a count of
\* at least 1.
C30_DayKeysHaveHits ==
    \A d \in DayKeys : d \in DOMAIN stats.Hits /\ stats.Hits[d] >= 1

\* Witness of C30: two days have records, one of them without a visit and
\* one with a record that is neither a file nor a page.
C30_Witness ==
    /\ Cardinality(DOMAIN stats.Hits) >= 2
    /\ DOMAIN stats.Visits # DOMAIN stats.Hits
    /\ DOMAIN stats.Pages # DOMAIN stats.Hits

----------------------------------------------------------------------------
(* Termination of ParallelLookup *)

\* C28: with at least one worker and a fair scheduler ParallelLookup
\* returns, whatever the visitor list: feeder, workers, collector and the
\* caller never block one another for good.
C28_AlwaysReturns == (numWorkers >= 1) ~> (pcMain = "returned")

\* Witness of C28: a call with one worker and two visitors has returned.
C28_Witness ==
    /\ pcMain = "returned"
    /\ numWorkers = 1
    /\ Len(visitors) = 2
    /\ \A w \in Started : pcWorker[w] = "done"
    /\ pcFeeder = "done" /\ pcCollector = "done"

----------------------------------------------------------------------------
(* The visitor list of LookupCountries *)

\* C25: the list LookupCountries hands to ParallelLookup holds every
\* address of the processed records, each of them once.
C25_VisitorsAreSeenAddresses ==
    pcCountries \in {"lookup", "close", "returned"} =>
        /\ {visitors[i] : i \in 1..Len(visitors)} = SeenAddresses
        /\ \A i, j \in 1..Len(visitors) : i # j => visitors[i] # visitors[j]

----------------------------------------------------------------------------
(* ProcessLog on lines that differ in their URL path and referrer *)

\* A line of address "a" at T0 with the given path and referrer.
FieldLine(path, ref) == [PageLine("a", T0) EXCEPT !.path = path, !.ref = ref]

FieldLines ==
    { \* "/a.html", "http://r/"
      FieldLine(<<47, 97, 46, 104, 116, 109, 108>>,
                <<104, 116, 116, 112, 58, 47, 47, 114, 47>>),
      \* "/a.jsx", "-"
      FieldLine(<<47, 97, 46, 106, 115, 120>>, <<45>>),
      \* "/a.png", "%zz": the referrer does not decode
      FieldLine(<<47, 97, 46, 112, 110, 103>>, <<37, 122, 122>>),
      \* "/%zz.htm", "a%20b": the path does not decode
      FieldLine(<<47, 37, 122, 122, 46, 104, 116, 109>>, <<97, 37, 50, 48, 98>>),
      \* "/a%2Ehtml", "-": decodes to "/a.html"
      FieldLine(<<47, 97, 37, 50, 69, 104, 116, 109, 108>>, <<45>>),
      \* "/a.php/b", "-"
      FieldLine(<<47, 97, 46, 112, 104, 112, 47, 98>>, <<45>>),
      \* a line that does not match the grammar
      [FieldLine(<<47>>, <<45>>) EXCEPT !.wellformed = FALSE] }

NextFields ==
    \/ \E l \in FieldLines : ProcessLine(l) /\ UNCHANGED aroundLog
    \/ \E l \in FieldLines : SkipLine(l) /\ UNCHANGED aroundLog

\* ProcessLog folding a log of such lines into a fresh accumulator.
SpecFields == Init /\ [][NextFields]_vars

\* The part of the path after its last '.' is one of the page-like
\* extensions.
HasPageExtension(path) ==
    \E i \in 1..Len(path) :
        /\ path[i] = 46
        /\ \A j \in (i + 1)..Len(path) : path[j] # 46
        /\ SubSeq(path, i + 1, Len(path)) \in fileExts

\* The records of day d whose path has a page-like extension.
PageRecords(d) ==
    {i \in 1..Len(records) :
        Format(records[i].Timestamp) = d /\ HasPageExtension(records[i].URLPath)}

\* C26: a record increments Pages[day] if and only if the extension of its
\* URL path, the part after the last '.', is one of the page-like
\* extensions: Pages[day] counts exactly the records of the day with such a
\* path.
C26_PagesCountPageExtensions ==
    \A d \in DayKeys : Get(stats.Pages, d) = Cardinality(PageRecords(d))

\* The line has fields that the grammar, the timestamp and the size accept,
\* and a path or a referrer that does not percent-decode.
UndecodableLine(l) ==
    /\ l.wellformed /\ ~unmarshalTimestamp(l.ts).err /\ ~unmarshalSize(l.size).err
    /\ EscapeError(l.path) \/ EscapeError(l.ref)

----------------------------------------------------------------------------
(* The views of the accumulator *)

\* dateStr[:7]: the month of a day key
MonthStr(dateStr) == <<dateStr[1], dateStr[2]>>

\* The HFPBVSData of one day with the hits of the addresses as its sites.
DayDataSitesByHits(s, category, dateStr) ==
    [Category |-> category,
     Hits     |-> Get(s.Hits, dateStr),
     Files    |-> Get(s.Files, dateStr),
     Pages    |-> Get(s.Pages, dateStr),
     Bytes    |-> Get(s.Bytes, dateStr),
     Visits   |-> SumMap(GetMap(s.Visits, dateStr)),
     Sites    |-> SumMap(GetMap(s.Sites, dateStr))]

\* The HFPBVSData of one day: the counters of the day, its visits summed
\* over the addresses, and the number of its addresses.
DayData(s, category, dateStr) ==
    [Category |-> category,
     Hits     |-> Get(s.Hits, dateStr),
     Files    |-> Get(s.Files, dateStr),
     Pages    |-> Get(s.Pages, dateStr),
     Bytes    |-> Get(s.Bytes, dateStr),
     Visits   |-> SumMap(GetMap(s.Visits, dateStr)),
     Sites    |-> Cardinality(DOMAIN GetMap(s.Sites, dateStr))]

\* The metrics of a month replaced by those of the day.
AddDataReplacing(value, day) == [day EXCEPT !.Category = value.Category]

\* value.Hits += hits, and so on for the six metrics
AddData(value, day) ==
    [value EXCEPT !.Hits = @ + day.Hits, !.Files = @ + day.Files,
                  !.Pages = @ + day.Pages, !.Bytes = @ + day.Bytes,
                  !.Visits = @ + day.Visits, !.Sites = @ + day.Sites]

\* for dateStr, hits := range stats.Hits
RECURSIVE AggregateMonths(_, _, _)
AggregateMonths(s, aggr, todo) ==
    IF todo = {} THEN aggr
    ELSE LET dateStr  == CHOOSE d \in todo : TRUE
             monthStr == MonthStr(dateStr)
             day      == DayData(s, monthStr[2], dateStr)
             value    == IF monthStr \in DOMAIN aggr
                         THEN AddData(aggr[monthStr], day) ELSE day
         IN  AggregateMonths(s, Put(aggr, monthStr, value), todo \ {dateStr})

\* AggregatesByMonth; the category is the month of time.Format("Jan").
AggregatesByMonth(s) == AggregateMonths(s, EmptyMap, DOMAIN s.Hits)

\* RecentAggregates; the category is the month and day of time.Format("Jan 2").
RecentAggregates(s) ==
    [dateStr \in recentKeys(s) |-> DayData(s, <<dateStr[2], dateStr[3]>>, dateStr)]

\* for k, hits := range m { aggr[k] += hits } over the keys todo of m
RECURSIVE AddCounts(_, _, _)
AddCounts(aggr, m, todo) ==
    IF todo = {} THEN aggr
    ELSE LET k == CHOOSE x \in todo : TRUE
         IN  AddCounts(Add(aggr, k, m[k]), m, todo \ {k})

\* The method counts of the days, the method "-" left out.
RECURSIVE MethodCounts(_, _, _)
MethodCounts(s, aggr, days) ==
    IF days = {} THEN aggr
    ELSE LET date == CHOOSE d \in days : TRUE
             m    == GetMap(s.Methods, date)
         IN  MethodCounts(s, AddCounts(aggr, m, DOMAIN m \ {"-"}), days \ {date})

\* The response code counts of the days.
RECURSIVE RespCounts(_, _, _)
RespCounts(s, aggr2, days) ==
    IF days = {} THEN aggr2
    ELSE LET date == CHOOSE d \in days : TRUE
             m    == GetMap(s.RespCodes, date)
         IN  RespCounts(s, AddCounts(aggr2, m, DOMAIN m), days \ {date})

\* MethRespAggregates summing over every day of Hits.
MethRespAggregatesAllDays(s) ==
    [methods |-> MethodCounts(s, EmptyMap, DOMAIN s.Hits),
     codes   |-> RespCounts(s, EmptyMap, DOMAIN s.Hits)]

\* MethRespAggregates
MethRespAggregates(s) ==
    [methods |-> MethodCounts(s, EmptyMap, recentKeys(s)),
     codes   |-> RespCounts(s, EmptyMap, recentKeys(s))]


\* The lines of the logs the views are taken of: days of February and March
\* 2024 and of the year 1, two addresses, a request line "-".
ViewLines ==
    LET M01 == Stamp(2024, 3, 1, 0, 0, 0, 0)
        M02 == Stamp(2024, 3, 2, 0, 0, 0, 0)
        M31 == Stamp(2024, 3, 31, 0, 0, 0, 0)
        F29 == Stamp(2024, 2, 29, 0, 0, 0, 0)
    IN  { PageLine("a", M01), ImageLine("b", M02), PageLine("b", M31),
          [PageLine("a", M31) EXCEPT !.method = "-"],
          PageLine("a", F29), PageLine("a", Z100),
          [PageLine("b", M01) EXCEPT !.wellformed = FALSE] }

\* ProcessLog returns the accumulator to its caller.
ReturnStats ==
    /\ pcView = "scan"
    /\ pcView' = "loaded"
    /\ UNCHANGED <<logVars, lookupVars, readerVars, countryVars, runVars, view>>

\* What a worker has stored for a visitor.
StoredCountry(visitor) ==
    LET res == lookupCountry(visitor)
    IN  IF res.err THEN "Vietnam" ELSE res.country

\* LookupCountries up to the return of ParallelLookup, taken as one step:
\* with its pool every unique visitor is resolved and stored.
LookupVisitors ==
    /\ pcView = "loaded"
    /\ countries' = [v \in uniqueVisitors(stats.Visits) |-> StoredCountry(v)]
    /\ pcView' = "cached"
    /\ UNCHANGED <<visitors, numWorkers, mu, workChanClosed, resultChan,
                   resultChanClosed, wg, wg2, pcMain, spawned, pcFeeder, next,
                   pcWorker, held, pcCollector, r, received>>
    /\ UNCHANGED <<logVars, readerVars, countryVars, runVars, view>>

\* LookupCountries: the merge loop.
MergeVisits ==
    /\ pcView = "cached"
    /\ stats' = Merge(stats)
    /\ pcView' = "merged"
    /\ UNCHANGED <<lineNr, input, records, lookupVars, readerVars, countryVars,
                   runVars, view>>

\* A consumer holds the accumulator, enriched or not.
Viewing == pcView \in {"loaded", "merged"}

CallAggregatesByMonth ==
    /\ Viewing
    /\ view' = [NoValue EXCEPT !.name = "AggregatesByMonth",
                               !.byMonth = AggregatesByMonth(stats)]
    /\ UNCHANGED <<logVars, lookupVars, readerVars, countryVars, runVars, pcView>>

\* RecentAggregates making the map of visits of a day that has none.
CallRecentAggregatesMaking ==
    /\ Viewing
    /\ view' = [NoValue EXCEPT !.name = "RecentAggregates",
                               !.recent = RecentAggregates(stats)]
    /\ stats' = [stats EXCEPT !.Visits =
                    [d \in DOMAIN stats.Visits \cup recentKeys(stats) |->
                        GetMap(stats.Visits, d)]]
    /\ UNCHANGED <<lineNr, input, records, lookupVars, readerVars, countryVars,
                   runVars, pcView>>

CallRecentAggregates ==
    /\ Viewing
    /\ view' = [NoValue EXCEPT !.name = "RecentAggregates",
                               !.recent = RecentAggregates(stats)]
    /\ UNCHANGED <<logVars, lookupVars, readerVars, countryVars, runVars, pcView>>

CallMethRespAggregates ==
    /\ Viewing
    /\ view' = [NoValue EXCEPT !.name = "MethRespAggregates",
                               !.methods = MethRespAggregates(stats).methods,
                               !.codes = MethRespAggregates(stats).codes]
    /\ UNCHANGED <<logVars, lookupVars, readerVars, countryVars, runVars, pcView>>

CallCountryAggregates ==
    /\ Viewing
    /\ view' = [NoValue EXCEPT !.name = "CountryAggregates",
                               !.countries = CountryAggregates(stats)]
    /\ UNCHANGED <<logVars, lookupVars, readerVars, countryVars, runVars, pcView>>

InitViews ==
    InitLog /\ NoLookup /\ NoReader /\ NoCountries /\ NoRun
        /\ pcView = "scan" /\ view = NoValue

NextViews ==
    \/ \E l \in ViewLines : pcView = "scan" /\ ProcessLine(l) /\ UNCHANGED aroundLog
    \/ \E l \in ViewLines : pcView = "scan" /\ SkipLine(l) /\ UNCHANGED aroundLog
    \/ ReturnStats
    \/ LookupVisitors
    \/ MergeVisits
    \/ CallAggregatesByMonth
    \/ CallRecentAggregates
    \/ CallMethRespAggregates
    \/ CallCountryAggregates

\* ProcessLog, then LookupCountries or not, and any sequence of view calls.
SpecViews == InitViews /\ [][NextViews]_vars

----------------------------------------------------------------------------
(* Properties of the views *)

\* The sum of one metric over the months of a by-month rollup.
MonthTotal(aggr, metric) ==
    SumOver([m \in DOMAIN aggr |-> aggr[m][metric]], DOMAIN aggr)

\* The day keys of Hits that fall into month m.
DaysOfMonth(m) == {d \in DOMAIN stats.Hits : d[1] = m[1] /\ d[2] = m[2]}

\* C21: the by-month rollup summed over all months equals the per-day
\* counters summed over all days, for hits, files, pages, bytes, visits
\* (summed across addresses) and sites (distinct addresses per day), and
\* every day key of Hits is counted in the one month of its first 7
\* characters.
C21_MonthsSumToDays ==
    LET aggr == AggregatesByMonth(stats)
    IN  /\ \A metric \in {"Hits", "Files", "Pages", "Bytes"} :
              MonthTotal(aggr, metric) = SumMap(stats[metric])
        /\ MonthTotal(aggr, "Visits") =
              SumOver([d \in DOMAIN stats.Visits |-> SumMap(stats.Visits[d])],
                      DOMAIN stats.Visits)
        /\ MonthTotal(aggr, "Sites") =
              SumOver([d \in DOMAIN stats.Sites |->
                          Cardinality(DOMAIN stats.Sites[d])],
                      DOMAIN stats.Sites)
        /\ DOMAIN aggr = {MonthStr(d) : d \in DOMAIN stats.Hits}
        /\ \A m \in DOMAIN aggr :
              aggr[m].Hits = SumOver(stats.Hits, DaysOfMonth(m))

\* Witness of C21: the rollup of two days of one month and a day of
\* another month was returned.
C21_Witness ==
    /\ view.name = "AggregatesByMonth"
    /\ view.byMonth = AggregatesByMonth(stats)
    /\ Cardinality(DOMAIN view.byMonth) = 2
    /\ \E m \in DOMAIN view.byMonth : Cardinality(DaysOfMonth(m)) = 2

\* The number of the day of a day key, counted from January 1 of year 1.
DayNumber(key) == AbsDay([y |-> key[1], mo |-> key[2], d |-> key[3]])

\* The first day of the month before the month of a day key.
FirstOfMonthBefore(key) ==
    IF key[2] = 1 THEN <<key[1] - 1, 12, 1>> ELSE <<key[1], key[2] - 1, 1>>

\* The latest day key of Hits.
LatestDay == CHOOSE k \in DOMAIN stats.Hits : \A x \in DOMAIN stats.Hits : ~KeyLess(k, x)

\* The day keys of Hits from day number first up to the latest day.
HitsDaysFrom(first) ==
    {k \in DOMAIN stats.Hits :
        first <= DayNumber(k) /\ DayNumber(k) < DayNumber(LatestDay) + 1}

\* The trailing-window rollup has one record for each of the days, with the
\* counters of the day.
RecentRecordsAre(days) ==
    /\ DOMAIN RecentAggregates(stats) = days
    /\ \A k \in days :
          /\ RecentAggregates(stats)[k].Hits = stats.Hits[k]
          /\ RecentAggregates(stats)[k].Hits >= 1

DayAfter(key) ==
    IF key[3] < DaysIn(key[2], key[1]) THEN <<key[1], key[2], key[3] + 1>>
    ELSE IF key[2] < 12 THEN <<key[1], key[2] + 1, 1>>
    ELSE <<key[1] + 1, 1, 1>>

WindowTotal(perDay, k) ==
    SumOver([d \in recentKeys(stats) |-> Get(GetMap(perDay, d), k)],
            recentKeys(stats))

\* The keys of the per-day maps of the days of the window.
WindowKeys(perDay) == UNION {DOMAIN GetMap(perDay, d) : d \in recentKeys(stats)}

\* C23: over the day keys of the trailing window MethRespAggregates returns
\* for each method but "-" the sum of its per-day counts and for each
\* response code the sum of its per-day counts, and CountryAggregates for
\* each country the sum of its per-day CtrVisits counts; days outside the
\* window add to none of them.
C23_WindowSums ==
    /\ DOMAIN MethRespAggregates(stats).methods = WindowKeys(stats.Methods) \ {"-"}
    /\ \A m \in WindowKeys(stats.Methods) \ {"-"} :
          MethRespAggregates(stats).methods[m] = WindowTotal(stats.Methods, m)
    /\ DOMAIN MethRespAggregates(stats).codes = WindowKeys(stats.RespCodes)
    /\ \A c \in WindowKeys(stats.RespCodes) :
          MethRespAggregates(stats).codes[c] = WindowTotal(stats.RespCodes, c)
    /\ DOMAIN CountryAggregates(stats) = WindowKeys(stats.CtrVisits)
    /\ \A c \in WindowKeys(stats.CtrVisits) :
          CountryAggregates(stats)[c] = WindowTotal(stats.CtrVisits, c)

\* Witness of C23: after the enrichment, a day with hits lies before the
\* window, and a day of the window has the method "-".
C23_Witness ==
    /\ pcView = "merged"
    /\ view.name = "MethRespAggregates"
    /\ DOMAIN stats.Hits \ recentKeys(stats) # {}
    /\ "-" \in WindowKeys(stats.Methods)
    /\ CountryAggregates(stats) # EmptyMap
    /\ DOMAIN view.methods = {"GET"}

\* C24: no call of AggregatesByMonth, RecentAggregates, MethRespAggregates
\* or CountryAggregates changes the accumulator, whatever the sequence of
\* calls, also on an empty accumulator and on days that a nested map lacks.
C24_ViewsChangeNothing ==
    [][(Viewing /\ pcView' = pcView) => stats' = stats]_vars

\* Witness of C24: RecentAggregates was called on an accumulator with a day
\* that has hits but no map of visits.
C24_Witness ==
    /\ view.name = "RecentAggregates"
    /\ \E d \in DOMAIN view.recent : d \notin DOMAIN stats.Visits

----------------------------------------------------------------------------
(* Sites and visits of the months *)

\* The addresses with a hit on some day of month m.
AddressesOfMonth(m) ==
    UNION {DOMAIN GetMap(stats.Sites, d) : d \in DaysOfMonth(m)}

\* C31: in the by-month rollup the Sites value of a month is the sum over
\* the days of the month of the number of distinct addresses of the day (an
\* address seen on k days adds k), and its Visits value is the sum of
\* Visits[day][a] over the days of the month and all addresses.
C31_MonthSitesAndVisits ==
    LET aggr == AggregatesByMonth(stats)
    IN  \A m \in DOMAIN aggr :
          /\ aggr[m].Sites =
                SumOver([d \in DaysOfMonth(m) |->
                            Cardinality(DOMAIN GetMap(stats.Sites, d))],
                        DaysOfMonth(m))
          /\ aggr[m].Sites =
                SumOver([a \in AddressesOfMonth(m) |->
                            Cardinality({d \in DaysOfMonth(m) :
                                a \in DOMAIN GetMap(stats.Sites, d)})],
                        AddressesOfMonth(m))
          /\ aggr[m].Visits =
                SumOver([d \in DaysOfMonth(m) |->
                            SumMap(GetMap(stats.Visits, d))],
                        DaysOfMonth(m))

\* Witness of C31: the rollup was returned with a month whose one address
\* was seen on two days, twice on one of them, and counts as two sites.
C31_Witness ==
    /\ view.name = "AggregatesByMonth"
    /\ view.byMonth = AggregatesByMonth(stats)
    /\ \E m \in DOMAIN view.byMonth :
          /\ Cardinality(AddressesOfMonth(m)) = 1
          /\ Cardinality(DaysOfMonth(m)) = 2
          /\ view.byMonth[m].Sites = 2
          /\ view.byMonth[m].Hits = 3
          /\ view.byMonth[m].Visits >= 1

----------------------------------------------------------------------------
(* ProcessLog on lines around midnight *)

\* 01/Jan/2024:23:55:00, 02/Jan/2024:00:01:00 and 02/Jan/2024:00:20:00 UTC
MidnightLines ==
    LET D2355 == Stamp(2024, 1, 1, 23, 55, 0, 0)
        D0001 == Stamp(2024, 1, 2, 0, 1, 0, 0)
        D0020 == Stamp(2024, 1, 2, 0, 20, 0, 0)
    IN  { PageLine("a", D2355), PageLine("a", D0001), ImageLine("a", D0001),
          PageLine("b", D0001), ImageLine("b", D0020), PageLine("a", D0020),
          [PageLine("b", D2355) EXCEPT !.wellformed = FALSE] }

NextMidnight ==
    \/ \E l \in MidnightLines : ProcessLine(l) /\ UNCHANGED aroundLog
    \/ \E l \in MidnightLines : SkipLine(l) /\ UNCHANGED aroundLog

\* ProcessLog on a log of the two days around a midnight.
SpecMidnight == Init /\ [][NextMidnight]_vars

\* The sum of the visit counts of a day's per-entity entries.
VisitsOf(m) == SumMap([k \in DOMAIN m |-> m[k].Visits])

\* The day key of the first record of address a.
FirstDayOf(a) == Format(StampsOf(a)[1])

\* C32: the per-entity visit counters agree with the visit map.  For every
\* day and address IPs[day][a].Visits is Visits[day][a] (0 when absent), the
\* visits of the day's user agents sum to the visits of the day's addresses,
\* every address of Visits[day] is an address of Sites[day], and
\* Visits[day][a] <= Sites[day][a].  An address whose every record comes
\* within 600 s of its previous record has no visit on a day other than
\* that of its first record, although it is an address of Sites there.
C32_VisitCountersAgree ==
    /\ \A d \in DayKeys :
          /\ \A a \in DOMAIN GetMap(stats.IPs, d) \cup DOMAIN GetMap(stats.Visits, d) :
                GetHBV(GetMap(stats.IPs, d), a).Visits = Get(GetMap(stats.Visits, d), a)
          /\ VisitsOf(GetMap(stats.UserAgents, d)) = SumMap(GetMap(stats.Visits, d))
          /\ DOMAIN GetMap(stats.Visits, d) \subseteq DOMAIN GetMap(stats.Sites, d)
          /\ \A a \in DOMAIN GetMap(stats.Visits, d) :
                stats.Visits[d][a] <= stats.Sites[d][a]
    /\ \A a \in SeenAddresses :
          LateRecords(a) = 0 =>
              \A d \in DOMAIN stats.Visits \ {FirstDayOf(a)} :
                  a \notin DOMAIN stats.Visits[d]

\* Witness of C32: an address has a visit on 1 January and a record on
\* 2 January that is 360 s after its previous record: it is an address of
\* the sites of 2 January and has no visit there, while another address has.
C32_Witness ==
    /\ Len(records) = 3
    /\ StampsOf("a") = <<Stamp(2024, 1, 1, 23, 55, 0, 0), Stamp(2024, 1, 2, 0, 1, 0, 0)>>
    /\ Get(GetMap(stats.Visits, <<2024, 1, 1>>), "a") = 1
    /\ "a" \in DOMAIN GetMap(stats.Sites, <<2024, 1, 2>>)
    /\ DOMAIN GetMap(stats.Visits, <<2024, 1, 2>>) = {"b"}
    /\ GetHBV(GetMap(stats.IPs, <<2024, 1, 2>>), "a").Visits = 0

----------------------------------------------------------------------------
(* The hits of a day and its breakdowns *)

\* C33: for every day, Hits[day] equals the sum of Sites[day] over the
\* addresses, of Methods[day] over the methods, of RespCodes[day] over the
\* response codes, and the sums of the Hits fields of IPs[day],
\* UserAgents[day], URLPaths[day] (over path and method) and Referrers[day];
\* and Files[day] equals RespCodes[day][200], 0 when absent.
C33_HitsEqualBreakdowns ==
    \A d \in DayKeys :
        LET h == Get(stats.Hits, d)
        IN  /\ h = SumMap(GetMap(stats.Sites, d))
            /\ h = SumMap(GetMap(stats.Methods, d))
            /\ h = SumMap(GetMap(stats.RespCodes, d))
            /\ h = HitsOf(GetMap(stats.IPs, d))
            /\ h = HitsOf(GetMap(stats.UserAgents, d))
            /\ h = URLHitsOf(GetMap(stats.URLPaths, d))
            /\ h = HitsOf(GetMap(stats.Referrers, d))
            /\ Get(stats.Files, d) = Get(GetMap(stats.RespCodes, d), 200)

\* Witness of C33: a day with three hits of two addresses, two paths and two
\* response codes, one of them 200 with two files.
C33_Witness ==
    \E d \in DayKeys :
        /\ Get(stats.Hits, d) = 3
        /\ Cardinality(DOMAIN GetMap(stats.IPs, d)) = 2
        /\ Cardinality(DOMAIN GetMap(stats.URLPaths, d)) = 2
        /\ DOMAIN GetMap(stats.RespCodes, d) = {200, 404}
        /\ Get(stats.Files, d) = 2

----------------------------------------------------------------------------
(* ProcessLog on records that are out of time order *)

\* The folded record is of an address with records, and earlier than the
\* last hit time the accumulator holds for the address.
FoldedEarlier ==
    /\ Folded
    /\ LastLine(records').IP \in DOMAIN stats.LastVisit
    /\ Sub(LastLine(records').Timestamp,
           stats.LastVisit[LastLine(records').IP]) < 0

\* C34: a record of address a that is earlier than LastVisit[a] is no new
\* visit and still sets LastVisit[a] to its timestamp; LastVisit[a] is the
\* timestamp of the record of a processed last, not the latest timestamp
\* seen.
C34_LastVisitIsLastProcessed ==
    /\ [](\A a \in SeenAddresses :
            /\ a \in DOMAIN stats.LastVisit
            /\ stats.LastVisit[a] = StampsOf(a)[Len(StampsOf(a))])
    /\ [][FoldedEarlier =>
            /\ stats'.Visits = stats.Visits
            /\ stats'.LastVisit[LastLine(records').IP] =
                  LastLine(records').Timestamp
            /\ LET e   == LastLine(records')
                   day == Format(e.Timestamp)
               IN  GetHBV(GetMap(stats'.IPs, day), e.IP).Visits =
                       GetHBV(GetMap(stats.IPs, day), e.IP).Visits]_vars

\* Witness of C34: the records of an address came at 601 s, 0 s and 700 s;
\* the second set the last hit time back, and the third was counted as a
\* new visit 99 s after the first.
C34_Witness ==
    /\ Len(StampsOf("a")) = 3
    /\ Sub(StampsOf("a")[2], StampsOf("a")[1]) = -601
    /\ Sub(StampsOf("a")[3], StampsOf("a")[1]) = 99
    /\ Get(GetMap(stats.Visits, Format(StampsOf("a")[1])), "a") = 2
    /\ Sub(stats.LastVisit["a"], StampsOf("a")[1]) = 99

----------------------------------------------------------------------------
(* The cache after ParallelLookup *)

\* The addresses of the visitor list.
Listed == {visitors[i] : i \in 1..Len(visitors)}

\* The cache that the visitor list determines: each of its addresses with
\* the country its resolution gives.
CacheOf(list) ==
    [v \in {list[i] : i \in 1..Len(list)} |-> StoredCountry(v)]

\* C35: when ParallelLookup has returned, the cache is the map that the
\* visitor list and the resolution of each address determine, whatever the
\* interleaving, the number of workers (at least one) and the order in which
\* the results reached the collector, also for a list with an address twice.
C35_CacheIsFunctionOfList ==
    (pcMain = "returned" /\ numWorkers >= 1) => countries = CacheOf(visitors)

\* Witness of C35: with two workers the result of the second address of the
\* list was stored before that of the first, and the call has returned.
C35_Witness ==
    /\ pcMain = "returned"
    /\ numWorkers = 2
    /\ Len(visitors) = 2
    /\ visitors[1] # visitors[2]
    /\ r.visitor = visitors[1]
    /\ countries = CacheOf(visitors)

----------------------------------------------------------------------------
(* Lookup while ParallelLookup runs *)

\* C36: a Lookup that runs while ParallelLookup runs never reads the map
\* while the collector writes it; for an address of the list it returns
\* not-found or the country the address ends with, never another value; and
\* once it has returned found for an address, every later Lookup of the
\* address returns the same country.
C36_LookupSeesFinalOrNothing ==
    /\ [](pcReader \in {"read", "runlock"} =>
              mu = "reader" /\ pcCollector \notin {"store", "unlock"})
    /\ [](\A v \in DOMAIN got :
              /\ v \in Listed
              /\ got[v] = CacheOf(visitors)[v]
              /\ Lookup(v) = [country |-> got[v], found |-> TRUE])
    /\ [][\A v \in DOMAIN got : v \in DOMAIN got' /\ got'[v] = got[v]]_vars

\* Witness of C36: while a worker still resolves the second address of the
\* list, Lookup has returned the country of the first as found, and the
\* collector waits for the lock that the reader holds.
C36_Witness ==
    /\ pcMain # "returned"
    /\ Len(visitors) = 2
    /\ DOMAIN got = {visitors[1]}
    /\ visitors[2] \notin DOMAIN countries
    /\ pcReader = "runlock"
    /\ pcCollector = "lock"

----------------------------------------------------------------------------
(* The routines of ParallelLookup *)

\* The feeder, the collector and every worker of the pool have ended.
RoutinesEnded ==
    /\ pcFeeder = "done"
    /\ pcCollector = "done"
    /\ \A w \in 1..numWorkers : pcWorker[w] = "done"

\* C37: for every visitor list and every number of workers, 0 included,
\* the feeder, each worker and the collector end under a fair scheduler;
\* none stays blocked on a channel after ParallelLookup has returned.
C37_RoutinesEnd == <>(pcMain = "returned" /\ RoutinesEnded)

----------------------------------------------------------------------------
(* One result for each visitor *)

\* How often address v occurs as the visitor of the elements of a sequence
\* of results.
RECURSIVE TimesIn(_, _)
TimesIn(v, results) ==
    IF results = <<>> THEN 0
    ELSE (IF Head(results).visitor = v THEN 1 ELSE 0) + TimesIn(v, Tail(results))

\* How often address v occurs among the first n elements of the list.
TimesListed(v, n) == Cardinality({i \in 1..n : visitors[i] = v})

\* The workers that hold a visitor they have received and not yet published.
Busy == {w \in Workers : pcWorker[w] \in {"lookup", "publish"}}

\* C38: with at least one worker every element of the visitor list is
\* received by one worker and gives one result.  At any moment each element
\* handed over so far is with one worker, in the result channel or with the
\* collector, once; when the call has returned the collector has received
\* len(visitors) results, one for each element, none twice and none lost.
C38_OneResultPerVisitor ==
    /\ \A v \in Addresses :
          TimesListed(v, next - 1) =
              Cardinality({w \in Busy : held[w].visitor = v})
                  + TimesIn(v, resultChan) + TimesIn(v, received)
    /\ (pcMain = "returned" /\ numWorkers >= 1) =>
          /\ Len(received) = Len(visitors)
          /\ \A v \in Addresses :
                TimesIn(v, received) = TimesListed(v, Len(visitors))
          /\ \A i \in 1..Len(received) :
                received[i].country = StoredCountry(received[i].visitor)

\* Witness of C38: two workers have shared a list that names one address
\* twice, and the collector has received two results of that address.
C38_Witness ==
    /\ pcMain = "returned"
    /\ numWorkers = 2
    /\ Len(visitors) = 2 /\ visitors[1] = visitors[2]
    /\ Len(received) = 2
    /\ \A w \in Workers : held[w].visitor = visitors[1]

----------------------------------------------------------------------------
(* The visits of a day by country *)

\* C39: after LookupCountries has succeeded on an accumulator with an empty
\* CtrVisits, every address of the visit map has a cache entry, and for
\* every day the visits of the countries sum to the visits of the
\* addresses: no visit is missing from the totals by country and none is
\* counted twice.
C39_CountryVisitsSumToVisits ==
    Merged =>
        /\ uniqueVisitors(stats.Visits) \subseteq DOMAIN countries
        /\ DOMAIN stats.CtrVisits = DOMAIN stats.Visits
        /\ \A d \in AllDays :
              SumMap(GetMap(stats.CtrVisits, d)) = SumMap(GetMap(stats.Visits, d))

\* Witness of C39: the merge is done for a day with three visits of two
\* addresses whose lookups fail.
C39_Witness ==
    /\ Merged
    /\ \E d \in DOMAIN stats.CtrVisits :
          /\ Cardinality(DOMAIN stats.Visits[d]) = 2
          /\ \A a \in DOMAIN stats.Visits[d] : lookupCountry(a).err
          /\ SumMap(stats.CtrVisits[d]) = 3

----------------------------------------------------------------------------
(* The views of logs that end with a month or with the year 9999 *)

\* 31/Dec/2023, 31/Jan/2024, 30/Dec/9999 and 31/Dec/9999, at midnight UTC
YearEndLines ==
    LET D1231 == Stamp(2023, 12, 31, 0, 0, 0, 0)
        J31 == Stamp(2024, 1, 31, 0, 0, 0, 0)
        Y1230 == Stamp(9999, 12, 30, 0, 0, 0, 0)
        Y1231 == Stamp(9999, 12, 31, 0, 0, 0, 0)
    IN  { PageLine("b", D1231), PageLine("a", T0), PageLine("a", J31),
          ImageLine("a", Y1230), PageLine("a", Y1231),
          [PageLine("b", J31) EXCEPT !.wellformed = FALSE] }

NextYearEnd ==
    \/ \E l \in YearEndLines : pcView = "scan" /\ ProcessLine(l) /\ UNCHANGED aroundLog
    \/ \E l \in YearEndLines : pcView = "scan" /\ SkipLine(l) /\ UNCHANGED aroundLog
    \/ ReturnStats
    \/ LookupVisitors
    \/ MergeVisits
    \/ CallAggregatesByMonth
    \/ CallRecentAggregates
    \/ CallMethRespAggregates
    \/ CallCountryAggregates

\* ProcessLog on such a log, then LookupCountries or not, and the views.
SpecYearEnd == InitViews /\ [][NextYearEnd]_vars

\* The day key of Hits with the latest date.
LatestDate ==
    CHOOSE k \in DOMAIN stats.Hits :
        \A x \in DOMAIN stats.Hits : ~KeyLessByDate(k, x)

\* The keys that recentKeys returns are days of the 31 days that end with
\* the latest day of Hits, so that there are 31 of them at most.
WindowWithin31Days ==
    /\ \A k \in recentKeys(stats) :
          /\ DayNumber(k) <= DayNumber(LatestDate)
          /\ DayNumber(LatestDate) - DayNumber(k) <= 30
    /\ Cardinality(recentKeys(stats)) <= 31

\* The three views of the trailing window return empty results.
WindowViewsEmpty ==
    /\ recentKeys(stats) = {}
    /\ RecentAggregates(stats) = EmptyMap
    /\ MethRespAggregates(stats).methods = EmptyMap
    /\ MethRespAggregates(stats).codes = EmptyMap
    /\ CountryAggregates(stats) = EmptyMap

\* C40: for a non-empty accumulator the day keys that recentKeys returns
\* contain the latest day key of Hits and are 31 at most; for an empty
\* accumulator recentKeys returns nothing, and RecentAggregates,
\* MethRespAggregates and CountryAggregates return empty results.
C40_WindowHoldsLatestDay ==
    /\ stats.Hits # EmptyMap =>
          /\ LatestDate \in recentKeys(stats)
          /\ WindowWithin31Days
    /\ stats.Hits = EmptyMap => WindowViewsEmpty

====
